---------------------------- MODULE Spec2Model ----------------------------
(***************************************************************************)
(* Model of the diaspora adapter base contract (adapters/base/adapter.ts): *)
(* the adapter lifecycle (state, error, waitReady), the query and options  *)
(* normalizers and the entity matcher.                                     *)
(*                                                                         *)
(* Seven specifications share the module:                                  *)
(*   Spec         the adapter lifecycle: ready / error events, waitReady   *)
(*   SpecQuery    normalizeQuery and matchEntity applied to bounded inputs *)
(*   SpecOptions  normalizeOptions applied to bounded caller options       *)
(*   SpecCrud     one CRUD call on an adapter, with the base defaults and  *)
(*                the web storage primitives (adapters/webStorage)         *)
(*   FairSpecCrud SpecCrud with every pending step eventually taken        *)
(*   SpecRemap    configureCollection, remapInput and remapOutput          *)
(*   SpecRegistry registerAdapter, createNamedDataSource and declareModel  *)
(*                of the Diaspora namespace (diaspora.ts)                  *)
(***************************************************************************)
EXTENDS Integers, Sequences, FiniteSets, TLC

VARIABLES
    \* --- adapter lifecycle (Adapter fields and the promises of waitReady)
    state,        \* Adapter.state
    error,        \* Adapter.error
    listeners,    \* waitReady callers whose ready/error handlers are registered (this.on)
    promise,      \* the Bluebird promise each waitReady call returned
    delivered,    \* the ready / error events emitted on the adapter so far
    \* --- normalizeQuery / matchEntity
    query,        \* the query handed to normalizeQuery / matchEntity
    qOptions,     \* the options handed to normalizeQuery
    entity,       \* the record handed to matchEntity
    qPhase,       \* the call that returned last: "input", "normalized", "renormalized", "matched"
    normalized,   \* what normalizeQuery(query, qOptions) returned or threw
    renormalized, \* what normalizeQuery of that result returned or threw
    matched,      \* what matchEntity(query, entity) returned
    \* --- normalizeOptions
    callerOpts,   \* the options object the caller holds
    givenOpts,    \* its contents when the caller built it
    oPhase,       \* "input" or "normalized"
    oResult,      \* the object normalizeOptions returned
    \* --- CRUD primitives of one adapter on one table
    native,       \* the primitives the adapter class implements itself
    queryFind,    \* the query of the operation
    hasIndex,     \* the backing store: whether the table's key holds an index
    tableIndex,   \* the backing store: the table's index (ids, in insertion order)
    items,        \* the backing store: the item stored for each id generated so far
    heap,         \* the options objects allocated so far, by reference
    tasks,        \* the calls made so far (async functions and their promises)
    given,        \* the caller's options and the store when the operation was called
    \* --- remapping
    remaps,       \* Adapter.remaps[table]: normal and inverted
    filters,      \* Adapter.filters[table]
    configureArgs, \* the adapter class and the arguments of configureCollection
    record,       \* the record handed to remapInput
    remapped,     \* remapInput(table, record)
    restored,     \* remapOutput(table, remapped)
    rPhase,       \* "input", "configured", "remapped", "restored"
    \* --- the Diaspora namespace
    adapters,     \* Diaspora.adapters: label -> adapter constructor
    dataSources,  \* Diaspora._dataSources: name -> data source
    models,       \* Diaspora.models: name -> model
    created,      \* the registrations and constructions made so far (their count)
    lastCall      \* the last call: its arguments, its outcome, the registries before it

lifecycleVars == <<state, error, listeners, promise, delivered>>
queryVars == <<query, qOptions, entity, qPhase, normalized, renormalized, matched>>
optionVars == <<callerOpts, givenOpts, oPhase, oResult>>
crudVars == <<native, queryFind, hasIndex, tableIndex, items, heap, tasks, given>>
remapVars == <<remaps, filters, configureArgs, record, remapped, restored, rPhase>>
registryVars == <<adapters, dataSources, models, created, lastCall>>
vars == <<state, error, listeners, promise, delivered,
          query, qOptions, entity, qPhase, normalized, renormalized, matched,
          callerOpts, givenOpts, oPhase, oResult,
          native, queryFind, hasIndex, tableIndex, items, heap, tasks, given,
          remaps, filters, configureArgs, record, remapped, restored, rPhase,
          adapters, dataSources, models, created, lastCall>>

-----------------------------------------------------------------------------
(* Bounds *)

NumWaiters == 2       \* waitReady calls made on one adapter
MaxEvents == 3        \* ready / error events emitted on one adapter

Waiters == 1..NumWaiters
Errors == {"E1", "E2"}

-----------------------------------------------------------------------------
(* Adapter lifecycle *)

\* enum EAdapterState
READY == "ready"
ERROR == "error"
PREPARING == "preparing"
EAdapterState == {READY, ERROR, PREPARING}

NoError == "undefined"

\* A promise: not created yet, pending, or settled with a value.
NotCalled == [status |-> "none", value |-> "none"]
Pending == [status |-> "pending", value |-> "none"]
Resolved(v) == [status |-> "resolved", value |-> v]
Rejected(e) == [status |-> "rejected", value |-> e]

\* resolve / reject of a promise executor: the first settlement wins, later
\* calls are ignored.
Settle(p, outcome) == IF p.status = "pending" THEN outcome ELSE p

ReadyEvent == [type |-> READY, err |-> NoError]
ErrorEvent(e) == [type |-> ERROR, err |-> e]

\* The state set by the constructor's handler for an event: the ready handler
\* sets READY and the error handler ERROR, whatever the current state.
HandlerState(ev) == IF ev.type = READY THEN READY ELSE ERROR

\* this.error after the constructor's handler for an event.
HandlerError(ev) == IF ev.type = READY THEN error ELSE ev.err

\* The handlers a pending waitReady registered, run on an event.
WaiterOutcome(ev) == IF ev.type = READY THEN Resolved("self") ELSE Rejected(ev.err)

\* The adapter as the constructor leaves it.
InitLifecycle ==
    /\ state = PREPARING
    /\ error = NoError
    /\ listeners = {}
    /\ promise = [w \in Waiters |-> NotCalled]
    /\ delivered = <<>>

\* A waitReady whose executor settles at once whatever the state (a mutant).
WaitReadyMutant(w) ==
    /\ promise[w] = NotCalled
    /\ promise' = [promise EXCEPT ![w] =
            IF state = ERROR THEN Rejected(error) ELSE Resolved("self")]
    /\ UNCHANGED <<state, error, listeners, delivered>>

\* waitReady(): the executor runs synchronously.
WaitReady(w) ==
    /\ promise[w] = NotCalled
    /\ IF state = READY
         THEN /\ promise' = [promise EXCEPT ![w] = Resolved("self")]
              /\ UNCHANGED listeners
         ELSE IF state = ERROR
           THEN /\ promise' = [promise EXCEPT ![w] = Rejected(error)]
                /\ UNCHANGED listeners
           ELSE /\ promise' = [promise EXCEPT ![w] = Pending]
                /\ listeners' = listeners \cup {w}
    /\ UNCHANGED <<state, error, delivered>>

\* emit(ev): the constructor's handler runs first, then the handlers of every
\* waitReady that registered, in registration order; handlers stay registered.
Emit(ev) ==
    /\ Len(delivered) < MaxEvents
    /\ state' = HandlerState(ev)
    /\ error' = HandlerError(ev)
    /\ promise' = [w \in Waiters |->
            IF w \in listeners THEN Settle(promise[w], WaiterOutcome(ev))
            ELSE promise[w]]
    /\ delivered' = Append(delivered, ev)
    /\ UNCHANGED listeners

EmitReady == Emit(ReadyEvent)
EmitError == \E e \in Errors : Emit(ErrorEvent(e))

-----------------------------------------------------------------------------
(* Values, queries and entities *)

MaxEntries == 3       \* operator entries (field, operator, operand) in one input query

\* A JavaScript value, tagged with its type.
Num(n) == <<"number", n>>
Str(s) == <<"string", s>>
Date(d) == <<"date", d>>
Bool(b) == <<"boolean", b>>
Undefined == <<"undefined", 0>>

TypeOf(v) == v[1]
IsString(v) == TypeOf(v) = "string"
IsNumber(v) == TypeOf(v) = "number"
IsDate(v) == TypeOf(v) = "date"
IsUndefined(v) == TypeOf(v) = "undefined"

\* The fields of the modelled table; objects list their keys in this order.
Fields == {"id", "age"}
FieldOrder == <<"id", "age">>

\* An operator mapping { operator: operand, ... }: a function from the operator
\* names it holds to their operands.
EmptyMapping == << >>
Singleton(op, v) == [o \in {op} |-> v]

\* What a query holds for a field: nothing (the key is absent), a plain value
\* (undefined included) or an operator mapping.
AbsentDesc == [kind |-> "absent", val |-> Undefined, ops |-> EmptyMapping]
ValueDesc(v) == [kind |-> "value", val |-> v, ops |-> EmptyMapping]
MappingDesc(m) == [kind |-> "mapping", val |-> Undefined, ops |-> m]

\* A query: a bare scalar or an object of field descriptors.
NoFields == [f \in Fields |-> AbsentDesc]
ScalarQuery(v) == [kind |-> "scalar", val |-> v, fields |-> NoFields]
ObjectQuery(fs) == [kind |-> "object", val |-> Undefined, fields |-> fs]
EmptyQuery == ObjectQuery(NoFields)

\* The keys an object query holds, in iteration order.
KeysOf(fs) == SelectSeq(FieldOrder, LAMBDA f : fs[f].kind # "absent")

-----------------------------------------------------------------------------
(* Operator table and alias table (adapter-utils) *)

\* OPERATORS: the canonical operator names the table holds.
OperatorNames ==
    {"$equal", "$diff", "$less", "$lessEqual", "$greater", "$greaterEqual",
     "$exists", "$notExists"}

\* Arithmetic comparison is defined between two numbers or two dates.
Comparable(a, b) == TypeOf(a) = TypeOf(b) /\ TypeOf(a) \in {"number", "date"}

\* OPERATORS[operationName](entityVal, targetVal), for a name of the table.
OPERATORS(op, entityVal, targetVal) ==
    CASE op = "$equal" -> entityVal = targetVal
      [] op = "$diff" -> entityVal # targetVal
      [] op = "$less" -> Comparable(entityVal, targetVal) /\ entityVal[2] < targetVal[2]
      [] op = "$lessEqual" -> Comparable(entityVal, targetVal) /\ entityVal[2] <= targetVal[2]
      [] op = "$greater" -> Comparable(entityVal, targetVal) /\ entityVal[2] > targetVal[2]
      [] op = "$greaterEqual" -> Comparable(entityVal, targetVal) /\ entityVal[2] >= targetVal[2]
      [] op = "$exists" -> targetVal = Bool(~IsUndefined(entityVal))
      [] op = "$notExists" -> IsUndefined(entityVal)

\* CANONICAL_OPERATORS: alias -> canonical operator name.
CANONICAL_OPERATORS == ("$gt" :> "$greater")
Aliases == DOMAIN CANONICAL_OPERATORS

-----------------------------------------------------------------------------
(* matchEntity *)

\* _.isObject(desc): operator mappings and Date objects are objects, scalars
\* and undefined are not.
IsObject(desc) ==
    \/ desc.kind = "mapping"
    \/ desc.kind = "value" /\ IsDate(desc.val)

\* The own enumerable keys _.every(desc, ...) visits: a Date has none.
OwnOperations(desc) == IF desc.kind = "mapping" THEN desc.ops ELSE EmptyMapping

\* An inner iteratee that lets an operator missing from the table pass (a mutant).
RECURSIVE EveryOperationMutant(_, _, _)
EveryOperationMutant(m, ops, entityVal) ==
    IF ops = {} THEN TRUE
    ELSE LET operationName == CHOOSE o \in ops : TRUE
         IN IF operationName \in OperatorNames
              THEN IF OPERATORS(operationName, entityVal, m[operationName])
                     THEN EveryOperationMutant(m, ops \ {operationName}, entityVal)
                     ELSE FALSE
              ELSE EveryOperationMutant(m, ops \ {operationName}, entityVal)

\* _.every(desc, (val, operationName) => ...): stops at the first falsy result.
RECURSIVE EveryOperation(_, _, _)
EveryOperation(m, ops, entityVal) ==
    IF ops = {} THEN TRUE
    ELSE LET operationName == CHOOSE o \in ops : TRUE
         IN IF operationName \in OperatorNames
              THEN IF OPERATORS(operationName, entityVal, m[operationName])
                     THEN EveryOperation(m, ops \ {operationName}, entityVal)
                     ELSE FALSE
              ELSE FALSE

\* An outer iteratee that accepts as soon as one field matches (a mutant).
RECURSIVE EveryPairMutant(_, _, _)
EveryPairMutant(fs, keys, ent) ==
    IF keys = <<>> THEN FALSE
    ELSE LET key == Head(keys)
             desc == fs[key]
         IN IF IsObject(desc)
                 /\ EveryOperation(OwnOperations(desc), DOMAIN OwnOperations(desc), ent[key])
              THEN TRUE
              ELSE EveryPairMutant(fs, Tail(keys), ent)

\* _.every(_.toPairs(query), ([key, desc]) => ...).
RECURSIVE EveryPair(_, _, _)
EveryPair(fs, keys, ent) ==
    IF keys = <<>> THEN TRUE
    ELSE LET key == Head(keys)
             desc == fs[key]
         IN IF IsObject(desc)
              THEN IF EveryOperation(OwnOperations(desc), DOMAIN OwnOperations(desc), ent[key])
                     THEN EveryPair(fs, Tail(keys), ent)
                     ELSE FALSE
              ELSE FALSE

\* matchEntity(query, entity). _.toPairs of a number is empty; of a (non-empty)
\* string it is its characters, none of which is an object.
MatchEntity(q, ent) ==
    IF q.kind = "scalar"
      THEN ~IsString(q.val)
      ELSE EveryPair(q.fields, KeysOf(q.fields), ent)


-----------------------------------------------------------------------------
(* normalizeQuery *)

\* JSON.stringify of a value: a Date is written as its ISO string.
JSONValue(v) == IF IsDate(v) THEN <<"string", "date#", v[2]>> ELSE v
JSONStringify(m) == [o \in DOMAIN m |-> JSONValue(m[o])]

\* What a call ends with: a returned value or a thrown error.
NoThrow == [type |-> "none", names |-> <<>>, shown |-> EmptyMapping]
\* new Error(`Search can't have both "${operator}" and "${canonical}" keys, ...`)
ConflictError(operator, canonical) ==
    [type |-> "Error", names |-> <<operator, canonical>>, shown |-> EmptyMapping]
\* new TypeError(`Expect "${operation}" in ${JSON.stringify(attrSearch)} to be a numeric value`)
NumericTypeError(operation, attrSearch) ==
    [type |-> "TypeError", names |-> <<operation>>, shown |-> JSONStringify(attrSearch)]

Returned(v) == [threw |-> FALSE, value |-> v, err |-> NoThrow]
Threw(e) == [threw |-> TRUE, value |-> EmptyQuery, err |-> e]

\* A renaming that also turns a canonical name back into its alias (a mutant).
CanonicalNameMutant(operator) ==
    IF operator \in Aliases THEN CANONICAL_OPERATORS[operator]
    ELSE IF \E a \in Aliases : CANONICAL_OPERATORS[a] = operator
      THEN CHOOSE a \in Aliases : CANONICAL_OPERATORS[a] = operator
      ELSE operator

\* The key _.mapKeys gives an operator: an alias becomes its canonical name.
CanonicalName(operator) ==
    IF operator \in Aliases THEN CANONICAL_OPERATORS[operator] ELSE operator

\* The aliases of a mapping whose canonical operator is a key of it too.
ConflictingAliases(m) ==
    {operator \in DOMAIN m \cap Aliases : CANONICAL_OPERATORS[operator] \in DOMAIN m}

\* _.mapKeys(attrSearch, ...) when no alias conflicts.
MapKeys(m) ==
    [c \in {CanonicalName(o) : o \in DOMAIN m} |->
        m[CHOOSE o \in DOMAIN m : CanonicalName(o) = c]]

ArithmeticOperations == <<"$less", "$lessEqual", "$greater", "$greaterEqual">>

\* A check that accepts numbers only, no Date (a mutant).
IllTypedOperationsMutant(m) ==
    SelectSeq(ArithmeticOperations,
              LAMBDA operation : operation \in DOMAIN m /\ ~IsNumber(m[operation]))

\* The arithmetic operations of a mapping whose operand is neither a number
\* nor a Date, in the order the check visits them.
IllTypedOperations(m) ==
    SelectSeq(ArithmeticOperations,
              LAMBDA operation : /\ operation \in DOMAIN m
                                 /\ ~(IsNumber(m[operation]) \/ IsDate(m[operation])))

DescReturned(d) == [threw |-> FALSE, desc |-> d, err |-> NoThrow]
DescThrew(e) == [threw |-> TRUE, desc |-> AbsentDesc, err |-> e]

\* An else branch that renames the keys without the conflict check (a mutant).
NormalizeObjectAttrMutant(m) ==
    LET attrSearch == MapKeys(m)
    IN IF IllTypedOperations(attrSearch) # <<>>
         THEN DescThrew(NumericTypeError(Head(IllTypedOperations(attrSearch)), attrSearch))
         ELSE DescReturned(MappingDesc(attrSearch))

\* The else branch of the mapValues iteratee: attrSearch instanceof Object.
NormalizeObjectAttr(m) ==
    IF ConflictingAliases(m) # {}
      THEN LET operator == CHOOSE a \in ConflictingAliases(m) : TRUE
           IN DescThrew(ConflictError(operator, CANONICAL_OPERATORS[operator]))
      ELSE LET attrSearch == MapKeys(m)
           IN IF IllTypedOperations(attrSearch) # <<>>
                THEN DescThrew(NumericTypeError(Head(IllTypedOperations(attrSearch)), attrSearch))
                ELSE DescReturned(MappingDesc(attrSearch))

\* The mapValues iteratee of normalizeQuery.
NormalizeAttr(attrSearch) ==
    IF attrSearch.kind = "value" /\ IsUndefined(attrSearch.val)
      THEN DescReturned(MappingDesc(Singleton("$exists", Bool(FALSE))))
      ELSE IF attrSearch.kind = "value" /\ ~IsDate(attrSearch.val)
        THEN DescReturned(MappingDesc(Singleton("$equal", attrSearch.val)))
        ELSE NormalizeObjectAttr(OwnOperations(attrSearch))

\* _(query).mapValues(iteratee).value(): the keys in order, the first throw ends it.
RECURSIVE MapValues(_, _, _)
MapValues(fs, keys, acc) ==
    IF keys = <<>> THEN Returned(ObjectQuery(acc))
    ELSE LET r == NormalizeAttr(fs[Head(keys)])
         IN IF r.threw THEN Threw(r.err)
            ELSE MapValues(fs, Tail(keys), [acc EXCEPT ![Head(keys)] = r.desc])

\* if (_.isString(originalQuery)) originalQuery = { id: originalQuery }
WrapString(originalQuery) ==
    IF originalQuery.kind = "scalar" /\ IsString(originalQuery.val)
      THEN ObjectQuery([NoFields EXCEPT !["id"] = ValueDesc(originalQuery.val)])
      ELSE originalQuery

\* normalizeQuery(originalQuery, options). _.mapValues of a number has no key
\* to visit and gives {}.
NormalizeQuery(originalQuery, options) ==
    LET wrapped == WrapString(originalQuery)
    IN IF options.remapInput = TRUE
         THEN IF wrapped.kind = "scalar"
                THEN Returned(EmptyQuery)
                ELSE MapValues(wrapped.fields, KeysOf(wrapped.fields), NoFields)
         ELSE Returned(wrapped)


-----------------------------------------------------------------------------
(* normalizeOptions *)

MaxSkip == 2          \* largest options.skip a caller gives
MaxLimit == 2         \* largest options.limit a caller gives

\* An option the object does not hold (no own property).
Absent == <<"absent", 0>>

\* QUERY_OPTIONS_TRANSFORMS: the options that have a registered transform.
TransformedOptions == {"skip", "limit"}

\* QUERY_OPTIONS_TRANSFORMS[optionName](opts): an integer option is kept as given.
QUERY_OPTIONS_TRANSFORMS(optionName, opts) == opts

\* The _.forEach over QUERY_OPTIONS_TRANSFORMS: a transform runs when the
\* object has the option as an own property.
RECURSIVE ApplyTransforms(_, _)
ApplyTransforms(opts, names) ==
    IF names = {} THEN opts
    ELSE LET optionName == CHOOSE n \in names : TRUE
         IN ApplyTransforms(
                IF opts[optionName] # Absent
                  THEN QUERY_OPTIONS_TRANSFORMS(optionName, opts)
                  ELSE opts,
                names \ {optionName})

\* The defaults object of normalizeOptions.
DefaultOptions ==
    [skip |-> Num(0), limit |-> Absent, remapInput |-> Bool(TRUE), remapOutput |-> Bool(TRUE)]

\* _.defaults(opts, sources): a source property is assigned where the
\* destination property resolves to undefined.
Defaults(opts, sources) ==
    [k \in DOMAIN opts |->
        IF opts[k] \in {Absent, Undefined} /\ sources[k] # Absent
          THEN sources[k] ELSE opts[k]]

\* normalizeOptions working on the caller's object itself (a mutant).
NormalizeOptionsMutant(opts) ==
    LET optsNormalized == Defaults(ApplyTransforms(opts, TransformedOptions), DefaultOptions)
    IN [result |-> optsNormalized, argument |-> optsNormalized]

\* normalizeOptions(opts): what it returns, and what the object passed in holds
\* afterwards. _.cloneDeep gives the function an object of its own, so the
\* transforms and the defaults write to the copy.
NormalizeOptions(opts) ==
    LET copy == opts
        optsNormalized == Defaults(ApplyTransforms(copy, TransformedOptions), DefaultOptions)
    IN [result |-> optsNormalized, argument |-> opts]


-----------------------------------------------------------------------------
(* Inputs *)

\* The operator names input queries use: canonical ones, an alias and a name
\* that neither table holds.
InputOperators == {"$equal", "$less", "$greater", "$gt", "$exists", "$bogus"}
OperandsFor(op) ==
    IF op = "$exists" THEN {Bool(FALSE), Bool(TRUE)}
    ELSE {Num(1), Str("old"), Date(1)}
InputOperands == UNION {OperandsFor(op) : op \in InputOperators}

\* What a field without operator entries holds.
PlainDescs ==
    {AbsentDesc, MappingDesc(EmptyMapping), ValueDesc(Undefined),
     ValueDesc(Num(1)), ValueDesc(Str("old")), ValueDesc(Date(1))}

\* The sets of (field, operator) keys of at most MaxEntries entries.
EntryKeys == {K \in SUBSET (Fields \X InputOperators) : Cardinality(K) <= MaxEntries}
EntryOperands(K) == {f \in [K -> InputOperands] : \A k \in K : f[k] \in OperandsFor(k[2])}
FieldOperators(K, fld) == {k[2] : k \in {kk \in K : kk[1] = fld}}

\* The plain descriptors of the fields that have no operator entry in K.
PlainFields(K) ==
    {g \in [Fields -> PlainDescs] :
        \A fld \in Fields : FieldOperators(K, fld) # {} => g[fld] = AbsentDesc}

\* The object query whose fields hold their operator entries, or their plain
\* descriptor when they have none.
BuildQuery(K, f, g) ==
    ObjectQuery([fld \in Fields |->
        IF FieldOperators(K, fld) # {}
          THEN MappingDesc([op \in FieldOperators(K, fld) |-> f[<<fld, op>>]])
          ELSE g[fld]])

ScalarQueries ==
    {ScalarQuery(Str("old")), ScalarQuery(Str("k7")), ScalarQuery(Num(1)), ScalarQuery(Num(7))}

\* Records: a field is absent (undefined) or holds a number or a string.
Entities == [Fields -> {Undefined, Num(0), Num(1), Num(2), Str("old")}]

QueryOptionsInputs == [remapInput : BOOLEAN]

\* The options objects callers pass to normalizeOptions.
OptionsInputs ==
    [skip : {Absent} \cup {Num(n) : n \in 0..MaxSkip},
     limit : {Absent} \cup {Num(n) : n \in 0..MaxLimit},
     remapInput : {Absent, Bool(TRUE), Bool(FALSE)},
     remapOutput : {Absent, Bool(TRUE), Bool(FALSE)}]

-----------------------------------------------------------------------------
(* Operations of the query and options specifications *)

\* The parts a specification does not exercise stay at "none".
IdleLifecycle ==
    /\ state = "none"
    /\ error = "none"
    /\ listeners = {}
    /\ promise = <<>>
    /\ delivered = <<>>

IdleQuery ==
    /\ query = "none"
    /\ qOptions = "none"
    /\ entity = "none"
    /\ qPhase = "idle"
    /\ normalized = "none"
    /\ renormalized = "none"
    /\ matched = FALSE

IdleOptions ==
    /\ callerOpts = "none"
    /\ givenOpts = "none"
    /\ oPhase = "idle"
    /\ oResult = "none"

IdleCrud ==
    /\ native = {}
    /\ queryFind = "none"
    /\ hasIndex = FALSE
    /\ tableIndex = <<>>
    /\ items = <<>>
    /\ heap = <<>>
    /\ tasks = <<>>
    /\ given = "none"

IdleRemap ==
    /\ remaps = "none"
    /\ filters = "none"
    /\ configureArgs = "none"
    /\ record = "none"
    /\ remapped = "none"
    /\ restored = "none"
    /\ rPhase = "idle"

IdleRegistry ==
    /\ adapters = "none"
    /\ dataSources = "none"
    /\ models = "none"
    /\ created = 0
    /\ lastCall = "none"

\* The inputs of normalizeQuery and matchEntity: a scalar query or an object
\* query of at most MaxEntries operator entries.
InitQuery ==
    /\ \/ query \in ScalarQueries
       \/ \E K \in EntryKeys : \E f \in EntryOperands(K) : \E g \in PlainFields(K) :
            query = BuildQuery(K, f, g)
    /\ qOptions = "none"
    /\ entity = "none"
    /\ qPhase = "input"
    /\ normalized = "none"
    /\ renormalized = "none"
    /\ matched = FALSE

\* The input of normalizeOptions: the options object a caller built.
InitOptions ==
    /\ callerOpts \in OptionsInputs
    /\ givenOpts = callerOpts
    /\ oPhase = "input"
    /\ oResult = "none"

\* A call normalizeQuery(query, options).
NormalizeQueryCall ==
    /\ qPhase = "input"
    /\ \E o \in QueryOptionsInputs :
        /\ qOptions' = o
        /\ normalized' = NormalizeQuery(query, o)
    /\ qPhase' = "normalized"
    /\ UNCHANGED <<query, entity, renormalized, matched>>

\* A call normalizeQuery(result, options) on the result of the first call.
NormalizeAgainCall ==
    /\ qPhase = "normalized"
    /\ ~normalized.threw
    /\ renormalized' = NormalizeQuery(normalized.value, qOptions)
    /\ qPhase' = "renormalized"
    /\ UNCHANGED <<query, qOptions, entity, normalized, matched>>

\* A call matchEntity(query, entity).
MatchEntityCall ==
    /\ qPhase = "input"
    /\ \E e \in Entities :
        /\ entity' = e
        /\ matched' = MatchEntity(query, e)
    /\ qPhase' = "matched"
    /\ UNCHANGED <<query, qOptions, normalized, renormalized>>

\* A call normalizeOptions(callerOpts).
NormalizeOptionsCall ==
    /\ oPhase = "input"
    /\ oResult' = NormalizeOptions(callerOpts).result
    /\ callerOpts' = NormalizeOptions(callerOpts).argument
    /\ oPhase' = "normalized"
    /\ UNCHANGED givenOpts

-----------------------------------------------------------------------------
(* Specifications *)

Init == InitLifecycle /\ IdleQuery /\ IdleOptions /\ IdleCrud /\ IdleRemap /\ IdleRegistry

Next ==
    \/ (\E w \in Waiters : WaitReady(w)) /\ UNCHANGED <<queryVars, optionVars, crudVars, remapVars, registryVars>>
    \/ EmitReady /\ UNCHANGED <<queryVars, optionVars, crudVars, remapVars, registryVars>>
    \/ EmitError /\ UNCHANGED <<queryVars, optionVars, crudVars, remapVars, registryVars>>

Spec == Init /\ [][Next]_vars

QueryInit == IdleLifecycle /\ InitQuery /\ IdleOptions /\ IdleCrud /\ IdleRemap /\ IdleRegistry

QueryNext ==
    \/ NormalizeQueryCall /\ UNCHANGED <<lifecycleVars, optionVars, crudVars, remapVars, registryVars>>
    \/ NormalizeAgainCall /\ UNCHANGED <<lifecycleVars, optionVars, crudVars, remapVars, registryVars>>
    \/ MatchEntityCall /\ UNCHANGED <<lifecycleVars, optionVars, crudVars, remapVars, registryVars>>

SpecQuery == QueryInit /\ [][QueryNext]_vars

OptionsInit == IdleLifecycle /\ IdleQuery /\ InitOptions /\ IdleCrud /\ IdleRemap /\ IdleRegistry

OptionsNext == NormalizeOptionsCall /\ UNCHANGED <<lifecycleVars, queryVars, crudVars, remapVars, registryVars>>

SpecOptions == OptionsInit /\ [][OptionsNext]_vars


-----------------------------------------------------------------------------
(* Properties of the adapter lifecycle (checked under Spec) *)

LastDelivered == delivered[Len(delivered)]

\* C1: waitReady resolves at once with the adapter when the state is Ready,
\* rejects at once with the stored error when it is Error, and in Preparing
\* stays pending until the next event: a ready event resolves it, an error
\* event rejects it with that event's error.
WaitReadyContract ==
    [][\A w \in Waiters :
        /\ (promise[w] = NotCalled /\ promise'[w] # NotCalled) =>
              /\ state = READY => promise'[w] = Resolved("self")
              /\ state = ERROR => promise'[w] = Rejected(error)
              /\ state = PREPARING => promise'[w] = Pending
        /\ promise[w] = Pending =>
              /\ delivered' = delivered => promise'[w] = Pending
              /\ (delivered' # delivered /\ LastDelivered'.type = READY) =>
                    promise'[w] = Resolved("self")
              /\ (delivered' # delivered /\ LastDelivered'.type = ERROR) =>
                    promise'[w] = Rejected(LastDelivered'.err)
    ]_vars

\* C1 witness: one call was made in Preparing and resolved by a ready event,
\* another was made after a later error event and rejected with the stored error.
WaitReadyWitness ==
    \E w1, w2 \in Waiters :
        /\ w1 \in listeners /\ promise[w1] = Resolved("self")
        /\ w2 \notin listeners /\ state = ERROR /\ promise[w2] = Rejected(error)

\* C2: once the state is Error it never becomes Ready again, whatever events
\* are delivered.
ErrorIsTerminal == [][state = ERROR => state' # READY]_vars

\* Setup failed: the first event delivered to the adapter is an error event.
SetupFailed == Len(delivered) > 0 /\ delivered[1].type = ERROR
SetupError == delivered[1].err

\* C3: when setup fails with error E, every waitReady call, pending before the
\* failure or made later, is rejected with E and none resolves.
SetupFailureSurfaced ==
    SetupFailed =>
        \A w \in Waiters :
            promise[w] # NotCalled => promise[w] = Rejected(SetupError)

-----------------------------------------------------------------------------
(* Properties of matchEntity and normalizeQuery (checked under SpecQuery) *)

\* A canonical query: an object whose fields all hold operator mappings over
\* the names of the operator table.
IsCanonicalDesc(d) ==
    d.kind = "absent" \/ (d.kind = "mapping" /\ DOMAIN d.ops \subseteq OperatorNames)
IsCanonicalQuery(q) ==
    q.kind = "object" /\ \A f \in Fields : IsCanonicalDesc(q.fields[f])

\* Every field / operator pair of the query is satisfied by the record.
EveryPredicateHolds(q, ent) ==
    \A f \in Fields : \A op \in DOMAIN q.fields[f].ops :
        OPERATORS(op, ent[f], q.fields[f].ops[op])

\* C4: for a canonical query Q and a record R, matchEntity(Q, R) is true iff
\* every operator predicate of every field of Q holds of R's value at that
\* field; the empty query matches every record.
MatchIsConjunction ==
    (qPhase = "matched" /\ IsCanonicalQuery(query)) =>
        (matched <=> EveryPredicateHolds(query, entity))

\* C4 witness: a canonical query with operators on both fields matched a record.
MatchIsConjunctionWitness ==
    /\ qPhase = "matched" /\ IsCanonicalQuery(query) /\ matched
    /\ \A f \in Fields : query.fields[f].kind = "mapping" /\ DOMAIN query.fields[f].ops # {}

\* The query holds, on some field, an operator name the table does not hold.
HasUnknownOperator(q) ==
    /\ q.kind = "object"
    /\ \E f \in Fields :
          q.fields[f].kind = "mapping" /\ ~(DOMAIN q.fields[f].ops \subseteq OperatorNames)

\* C5: a query holding an operator name that is not in the operator table
\* evaluates to false for every record, whatever its other fields and
\* operators say (and the match returns rather than raising).
UnknownOperatorNeverMatches ==
    (qPhase = "matched" /\ HasUnknownOperator(query)) => matched = FALSE

\* C5 witness: the unknown name sits beside a field whose predicates all hold.
UnknownOperatorWitness ==
    /\ qPhase = "matched" /\ HasUnknownOperator(query)
    /\ \E f \in Fields :
          /\ query.fields[f].kind = "mapping"
          /\ DOMAIN query.fields[f].ops # {}
          /\ DOMAIN query.fields[f].ops \subseteq OperatorNames
          /\ \A op \in DOMAIN query.fields[f].ops :
                OPERATORS(op, entity[f], query.fields[f].ops[op])

\* { id: { $equal: scalar } }
IdEquals(v) == ObjectQuery([NoFields EXCEPT !["id"] = MappingDesc(Singleton("$equal", v))])

\* C6: normalizeQuery rewrites every bare scalar query, a string or a number,
\* into { id: { $equal: scalar } } (stated for options.remapInput true, the
\* branch that rewrites).
ScalarBecomesIdEquality ==
    (qPhase = "normalized" /\ qOptions.remapInput /\ query.kind = "scalar") =>
        normalized = Returned(IdEquals(query.val))

\* A field holds an alias together with the alias's canonical operator.
Conflicted(d) == d.kind = "mapping" /\ ConflictingAliases(d.ops) # {}

\* The operators of a field, as written, that are arithmetic comparisons (by
\* canonical name or alias) with an operand that is neither number nor date.
IllTypedWritten(d) ==
    {op \in DOMAIN d.ops :
        /\ CanonicalName(op) \in {"$less", "$lessEqual", "$greater", "$greaterEqual"}
        /\ TypeOf(d.ops[op]) \notin {"number", "date"}}
IllTyped(d) == d.kind = "mapping" /\ IllTypedWritten(d) # {}

\* The fields the iteration visits before f.
Earlier(f) == {g \in Fields : \E i, j \in 1..Len(FieldOrder) :
                    i < j /\ FieldOrder[i] = g /\ FieldOrder[j] = f}

NormalizedWithRemap == qPhase = "normalized" /\ qOptions.remapInput /\ query.kind = "object"

\* The result holds, for every field with an operator mapping, the same
\* operands under the canonical names.
AliasesReplaced(q, result) ==
    \A f \in Fields :
        q.fields[f].kind = "mapping" =>
            /\ result.fields[f].kind = "mapping"
            /\ DOMAIN result.fields[f].ops = {CanonicalName(o) : o \in DOMAIN q.fields[f].ops}
            /\ DOMAIN result.fields[f].ops \cap Aliases = {}
            /\ \A o \in DOMAIN q.fields[f].ops :
                  result.fields[f].ops[CanonicalName(o)] = q.fields[f].ops[o]

IsConflictError(e) ==
    /\ e.type = "Error"
    /\ \E a \in Aliases : e.names = <<a, CANONICAL_OPERATORS[a]>>

\* C7 as stated: with remapInput true, normalizeQuery fails with a conflict
\* error naming both keys whenever some field holds an alias together with its
\* canonical operator (and returns no query); when no field holds such a pair,
\* the query it returns has every alias replaced by its canonical name and the
\* operands kept.
ConflictAlwaysReported ==
    NormalizedWithRemap =>
        IF \E f \in Fields : Conflicted(query.fields[f])
          THEN normalized.threw /\ IsConflictError(normalized.err)
          ELSE ~normalized.threw => AliasesReplaced(query, normalized.value)

\* C7 as amended: the conflict error is thrown when no earlier field carries an
\* ill-typed arithmetic operand without a conflict of its own (that field's
\* type error is thrown instead); no query is returned either way; and when no
\* field holds a conflict or an ill-typed arithmetic operand, the aliases are
\* replaced by their canonical names and the operands kept.
ConflictReportedInOrder ==
    NormalizedWithRemap =>
        /\ \A f \in Fields :
              Conflicted(query.fields[f]) =>
                  /\ normalized.threw
                  /\ (\A g \in Earlier(f) : Conflicted(query.fields[g]) \/ ~IllTyped(query.fields[g]))
                        => IsConflictError(normalized.err)
        /\ (\A f \in Fields : ~Conflicted(query.fields[f]) /\ ~IllTyped(query.fields[f])) =>
              ~normalized.threw /\ AliasesReplaced(query, normalized.value)

\* C7 witness: a conflict in the only faulty field was reported.
ConflictWitness ==
    /\ NormalizedWithRemap
    /\ \E f \in Fields : Conflicted(query.fields[f])
    /\ \A f \in Fields : ~IllTyped(query.fields[f])
    /\ IsConflictError(normalized.err)

\* The error names the operator and shows its JSON-stringified operand.
IsTypeErrorFor(e, d) ==
    /\ e.type = "TypeError"
    /\ \E op \in IllTypedWritten(d) :
          /\ e.names = <<CanonicalName(op)>>
          /\ CanonicalName(op) \in DOMAIN e.shown
          /\ e.shown[CanonicalName(op)] = JSONValue(d.ops[op])

\* C8 as stated: with remapInput true, normalizeQuery fails with a type error
\* naming the operator and the JSON-stringified operand whenever a field
\* carries an arithmetic operator with an operand that is neither number nor
\* date, and does not fail with a type error when no field does.
TypeErrorAlwaysReported ==
    NormalizedWithRemap =>
        IF \E f \in Fields : IllTyped(query.fields[f])
          THEN /\ normalized.threw
               /\ \E f \in Fields : IllTyped(query.fields[f])
                                      /\ IsTypeErrorFor(normalized.err, query.fields[f])
          ELSE normalized.err.type # "TypeError"

\* C8 as amended: normalizeQuery fails whenever a field carries an ill-typed
\* arithmetic operand; the failure is the type error of the first such field
\* unless that field or an earlier one holds an alias together with its
\* canonical operator (then it is that conflict error); and there is no type
\* error when every arithmetic operand is a number or a date.
TypeErrorReportedInOrder ==
    NormalizedWithRemap =>
        /\ \A f \in Fields :
              IllTyped(query.fields[f]) =>
                  /\ normalized.threw
                  /\ (/\ ~Conflicted(query.fields[f])
                      /\ \A g \in Earlier(f) :
                            ~Conflicted(query.fields[g]) /\ ~IllTyped(query.fields[g]))
                        => IsTypeErrorFor(normalized.err, query.fields[f])
        /\ (\A f \in Fields : ~IllTyped(query.fields[f])) =>
              normalized.err.type # "TypeError"

\* C8 witness: an ill-typed operand written through the alias was reported
\* under the canonical name.
TypeErrorWitness ==
    /\ NormalizedWithRemap
    /\ \E f \in Fields :
          /\ query.fields[f].kind = "mapping"
          /\ "$gt" \in IllTypedWritten(query.fields[f])
          /\ IsTypeErrorFor(normalized.err, query.fields[f])
          /\ normalized.err.names = <<"$greater">>

\* C9: normalizeQuery is idempotent: where normalizeQuery(x, o) succeeds,
\* normalizeQuery(normalizeQuery(x, o), o) equals it.
NormalizeQueryIdempotent ==
    qPhase = "renormalized" => renormalized = normalized

\* C9 witness: the first call rewrote an alias and an undefined field, and the
\* second call returned.
NormalizeQueryIdempotentWitness ==
    /\ qPhase = "renormalized" /\ qOptions.remapInput /\ ~renormalized.threw
    /\ query.kind = "object"
    /\ \E f, g \in Fields :
          /\ query.fields[f].kind = "mapping" /\ "$gt" \in DOMAIN query.fields[f].ops
          /\ query.fields[g] = ValueDesc(Undefined)

-----------------------------------------------------------------------------
(* Properties of normalizeOptions (checked under SpecOptions) *)

\* C10: normalizeOptions returns skip 0, remapInput true and remapOutput true
\* where the caller gave no value, keeps every value the caller gave for
\* them, leaves limit absent when it was not given, and leaves the caller's
\* object unmodified.
NormalizeOptionsDefaults ==
    oPhase = "normalized" =>
        /\ oResult.skip = (IF givenOpts.skip = Absent THEN Num(0) ELSE givenOpts.skip)
        /\ oResult.remapInput =
              (IF givenOpts.remapInput = Absent THEN Bool(TRUE) ELSE givenOpts.remapInput)
        /\ oResult.remapOutput =
              (IF givenOpts.remapOutput = Absent THEN Bool(TRUE) ELSE givenOpts.remapOutput)
        /\ givenOpts.limit = Absent => oResult.limit = Absent
        /\ callerOpts = givenOpts

\* C10 witness: a caller gave remapInput false and a skip, no limit and no
\* remapOutput, and got the defaults for the rest.
NormalizeOptionsWitness ==
    /\ oPhase = "normalized"
    /\ givenOpts = [skip |-> Num(2), limit |-> Absent, remapInput |-> Bool(FALSE), remapOutput |-> Absent]
    /\ oResult = [skip |-> Num(2), limit |-> Absent, remapInput |-> Bool(FALSE), remapOutput |-> Bool(TRUE)]

-----------------------------------------------------------------------------
(* CRUD primitives: the backing store of the web storage adapter *)

MaxRecords == 3       \* records the table holds when the operation is called
MaxTasks == 12        \* calls made in one behaviour

\* Utils.generateUUID: the n-th id generated, an opaque string.
Uuid(n) == <<"uuid", n>>

\* The properties of a stored entity: its fields and its idHash.
EntityFields == Fields \cup {"idHash"}

\* The data sources an idHash names: the web storage adapter (its name is
\* always 'webStorage') and another one.
DataSourceNames == {"webStorage", "other"}
AdapterName == "webStorage"

\* An idHash object: for every data source the id it holds, if any.
NoHash == [s \in DataSourceNames |-> Absent]
HashOf(h) == <<"object", h>>

\* Storage.getItem of a key that holds nothing (null), written as a record to
\* stand where an item may.
NoItem == [f \in EntityFields |-> <<"null", 0>>]

\* undefined where a call returns an entity or nothing.
Nil == [f \in EntityFields |-> <<"nil", 0>>]

\* The object {}.
EmptyEntity == [f \in EntityFields |-> Undefined]

\* source.getItem(getItemName(table, id)): the item stored for the id.
GetItem(id) ==
    IF TypeOf(id) = "uuid" /\ id[2] \in 1..Len(items) THEN items[id[2]] ELSE NoItem

\* findOneById(table, id).
FindOneById(id) == IF GetItem(id) # NoItem THEN GetItem(id) ELSE Nil

\* The _.each over the table index in findOne: the first item that matches
\* once more than skip items matched (returnedItem), or undefined.
RECURSIVE EachItem(_, _, _, _)
EachItem(itemIds, q, matchedSoFar, skip) ==
    IF itemIds = <<>> THEN Nil
    ELSE LET item == GetItem(Head(itemIds))
         IN IF item = NoItem
              THEN EachItem(Tail(itemIds), q, matchedSoFar, skip)
              ELSE IF MatchEntity(q, item)
                     THEN IF matchedSoFar + 1 > skip
                            THEN item
                            ELSE EachItem(Tail(itemIds), q, matchedSoFar + 1, skip)
                     ELSE EachItem(Tail(itemIds), q, matchedSoFar, skip)

\* The test of findOne for a query that holds only { id: { $equal: ... } }.
IsIdEquality(q) ==
    /\ q.kind = "object"
    /\ KeysOf(q.fields) = <<"id">>
    /\ q.fields["id"].kind = "mapping"
    /\ DOMAIN q.fields["id"].ops = {"$equal"}

\* What WebStorageAdapter.findOne returns for a query and options.skip.
WebStorageFindOneResult(q, skip) ==
    IF q.kind = "scalar" THEN FindOneById(q.val)
    ELSE IF IsIdEquality(q) THEN FindOneById(q.fields["id"].ops["$equal"])
    ELSE EachItem(tableIndex, q, 0, skip)

\* The stored items that match the query, in table-index order.
RECURSIVE MatchingItems(_, _)
MatchingItems(itemIds, q) ==
    IF itemIds = <<>> THEN <<>>
    ELSE LET item == GetItem(Head(itemIds))
         IN IF item # NoItem /\ MatchEntity(q, item)
              THEN <<item>> \o MatchingItems(Tail(itemIds), q)
              ELSE MatchingItems(Tail(itemIds), q)

Min(a, b) == IF a < b THEN a ELSE b
Max(a, b) == IF a > b THEN a ELSE b

\* options.skip and options.limit as numbers; no limit means no bound.
SkipOf(opts) == IF IsNumber(opts.skip) THEN opts.skip[2] ELSE 0
Drop(list, n) == SubSeq(list, n + 1, Len(list))
Take(list, limit) ==
    IF IsNumber(limit) THEN SubSeq(list, 1, Min(limit[2], Len(list))) ELSE list

\* A findMany an adapter implements itself: the matches after the first skip
\* ones, at most limit of them.
NativeFindManyResult(q, opts) ==
    Take(Drop(MatchingItems(tableIndex, q), SkipOf(opts)), opts.limit)

-----------------------------------------------------------------------------
(* CRUD primitives: calls *)

Primitives ==
    {"insertOne", "insertMany", "findOne", "findMany", "updateOne", "updateMany",
     "deleteOne", "deleteMany"}

\* this.<method>: the adapter's own implementation when it has one, the
\* default of the base class otherwise.
Dispatch(method) == IF method \in native THEN "native" ELSE "base"

\* A call of an async function: its arguments, where it stands, its local
\* variables and the state of the promise it returned.
Frame(method, impl, parent, opt, arg) ==
    [m |-> method, impl |-> impl, parent |-> parent, opt |-> opt, arg |-> arg,
     pc |-> "start", status |-> "running", child |-> 0, local |-> 0,
     acc |-> <<>>, count |-> 0, origSkip |-> 0, result |-> Nil, err |-> ""]

Settled(f) == f.status \in {"resolved", "rejected"}
IsNil(v) == v = Nil
First(list) == IF Len(list) = 0 THEN Nil ELSE Head(list)

Resolve(f, v) == [f EXCEPT !.status = "resolved", !.result = v]
Reject(f, e) == [f EXCEPT !.status = "rejected", !.err = e]

\* The call t makes this.<method>(table, queryFind / entities, options) and
\* waits for its promise.
Spawn(t, f, method, opt, arg) ==
    Append([tasks EXCEPT ![t] = [f EXCEPT !.status = "awaiting", !.child = Len(tasks) + 1]],
           Frame(method, Dispatch(method), t, opt, arg))

\* The call t waits for: settled, resolved or rejected.
Awaited(t) == tasks[tasks[t].child]
ChildSettled(t) == tasks[t].status = "awaiting" /\ Settled(Awaited(t))

Running(t, method, impl, pc) ==
    /\ tasks[t].m = method
    /\ tasks[t].impl = impl
    /\ tasks[t].status = "running"
    /\ tasks[t].pc = pc

Returning(t, method, impl, pc) ==
    /\ tasks[t].m = method
    /\ tasks[t].impl = impl
    /\ tasks[t].pc = pc
    /\ ChildSettled(t)

store == <<hasIndex, tableIndex, items>>

\* ensureCollectionExists(table): the table's key holds an index afterwards
\* (the empty one when it held nothing); the index read is tableIndex.
EnsureCollectionExists == hasIndex' = TRUE



-----------------------------------------------------------------------------
(* The find pair *)

\* Adapter.findOne (default): options.limit = 1, then this.findMany.
FindOneDefaultCall(t) ==
    /\ Running(t, "findOne", "base", "start")
    /\ Len(tasks) < MaxTasks
    /\ heap' = [heap EXCEPT ![tasks[t].opt].limit = Num(1)]
    /\ tasks' = Spawn(t, [tasks[t] EXCEPT !.pc = "await"], "findMany", tasks[t].opt, <<>>)
    /\ UNCHANGED store

\* Adapter.findOne (default): _.first of what findMany returned.
FindOneDefaultReturn(t) ==
    /\ Returning(t, "findOne", "base", "await")
    /\ tasks' = [tasks EXCEPT ![t] =
            IF Awaited(t).status = "rejected"
              THEN Reject(@, Awaited(t).err)
              ELSE Resolve(@, First(Awaited(t).result))]
    /\ UNCHANGED <<heap, store>>

\* Adapter.findMany (default): normalizeOptions(options) gives the iterator an
\* options object of its own; iterateLimit starts with nothing found.
FindManyDefaultCall(t) ==
    /\ Running(t, "findMany", "base", "start")
    /\ heap' = Append(heap, NormalizeOptions(heap[tasks[t].opt]).result)
    /\ tasks' = [tasks EXCEPT ![t] =
            [@ EXCEPT !.pc = "loop", !.local = Len(heap) + 1,
                      !.origSkip = SkipOf(NormalizeOptions(heap[tasks[t].opt]).result)]]
    /\ UNCHANGED store

\* iterateLimit: enough items found, or the next query, which skips the items
\* found so far.
IterateLimitLoop(t) ==
    /\ Running(t, "findMany", "base", "loop")
    /\ IF heap[tasks[t].local].limit = Num(tasks[t].count)
         THEN /\ tasks' = [tasks EXCEPT ![t] = Resolve(@, @.acc)]
              /\ UNCHANGED heap
         ELSE /\ Len(tasks) < MaxTasks
              /\ heap' = [heap EXCEPT ![tasks[t].local].skip =
                                Num(tasks[t].origSkip + tasks[t].count)]
              /\ tasks' = Spawn(t, [tasks[t] EXCEPT !.count = @ + 1],
                                "findOne", tasks[t].local, <<>>)
    /\ UNCHANGED store

\* iterateLimit: the query returned; nothing found ends the iteration.
IterateLimitFound(t) ==
    /\ Returning(t, "findMany", "base", "loop")
    /\ tasks' = [tasks EXCEPT ![t] =
            IF Awaited(t).status = "rejected" THEN Reject(@, Awaited(t).err)
            ELSE IF IsNil(Awaited(t).result) THEN Resolve(@, @.acc)
            ELSE [@ EXCEPT !.status = "running", !.acc = Append(@, Awaited(t).result)]]
    /\ UNCHANGED <<heap, store>>

\* WebStorageAdapter.findOne: _.defaults(options, { skip: 0 }) and the search.
WebStorageFindOne(t) ==
    /\ Running(t, "findOne", "native", "start")
    /\ LET options == Defaults(heap[tasks[t].opt], [DefaultOptions EXCEPT
                            !.remapInput = Absent, !.remapOutput = Absent])
       IN /\ heap' = [heap EXCEPT ![tasks[t].opt] = options]
          /\ tasks' = [tasks EXCEPT ![t] =
                  Resolve(@, WebStorageFindOneResult(queryFind, SkipOf(options)))]
    /\ IF queryFind.kind = "scalar" \/ IsIdEquality(queryFind)
         THEN UNCHANGED hasIndex
         ELSE EnsureCollectionExists
    /\ UNCHANGED <<tableIndex, items>>

\* A findMany the adapter implements itself.
NativeFindMany(t) ==
    /\ Running(t, "findMany", "native", "start")
    /\ tasks' = [tasks EXCEPT ![t] =
            Resolve(@, NativeFindManyResult(queryFind, heap[tasks[t].opt]))]
    /\ UNCHANGED <<heap, store>>

-----------------------------------------------------------------------------
(* The delete pair *)

\* A default deleteOne that returns without calling deleteMany (a mutant).
DeleteOneDefaultCallMutant(t) ==
    /\ Running(t, "deleteOne", "base", "start")
    /\ tasks' = [tasks EXCEPT ![t] = Resolve(@, Nil)]
    /\ UNCHANGED <<heap, store>>

\* Adapter.deleteOne (default): options.limit = 1, then this.deleteMany.
DeleteOneDefaultCall(t) ==
    /\ Running(t, "deleteOne", "base", "start")
    /\ Len(tasks) < MaxTasks
    /\ heap' = [heap EXCEPT ![tasks[t].opt].limit = Num(1)]
    /\ tasks' = Spawn(t, [tasks[t] EXCEPT !.pc = "await"], "deleteMany", tasks[t].opt, <<>>)
    /\ UNCHANGED store

\* Adapter.deleteOne (default): the promise of deleteMany is the result.
DeleteOneDefaultReturn(t) ==
    /\ Returning(t, "deleteOne", "base", "await")
    /\ tasks' = [tasks EXCEPT ![t] =
            IF Awaited(t).status = "rejected"
              THEN Reject(@, Awaited(t).err)
              ELSE Resolve(@, Awaited(t).result)]
    /\ UNCHANGED <<heap, store>>

\* A loopFind that starts the next search without waiting for the deletion
\* (a mutant).
DeleteManyLoopFindMutant(t) ==
    /\ tasks[t].m = "deleteMany" /\ tasks[t].impl = "base"
    /\ \/ Running(t, "deleteMany", "base", "start")
       \/ tasks[t].pc = "deleting" /\ tasks[t].status = "awaiting"
    /\ Len(tasks) < MaxTasks
    /\ tasks' = Spawn(t, [tasks[t] EXCEPT !.pc = "finding"], "findOne", tasks[t].opt, <<>>)
    /\ UNCHANGED <<heap, store>>

\* A loopFind that goes on after a deleteOne was rejected (a mutant).
DeleteManyLoopFindRetryMutant(t) ==
    /\ \/ Running(t, "deleteMany", "base", "start")
       \/ Returning(t, "deleteMany", "base", "deleting")
    /\ Len(tasks) < MaxTasks
    /\ tasks' = Spawn(t, [tasks[t] EXCEPT !.pc = "finding"], "findOne", tasks[t].opt, <<>>)
    /\ UNCHANGED <<heap, store>>

\* Adapter.deleteMany (default), loopFind: this.findOne(table, queryFind,
\* options), at the call and each time a deleteOne resolved.
DeleteManyLoopFind(t) ==
    /\ \/ Running(t, "deleteMany", "base", "start")
       \/ Returning(t, "deleteMany", "base", "deleting")
    /\ IF tasks[t].status = "awaiting" /\ Awaited(t).status = "rejected"
         THEN tasks' = [tasks EXCEPT ![t] = Reject(@, Awaited(t).err)]
         ELSE /\ Len(tasks) < MaxTasks
              /\ tasks' = Spawn(t, [tasks[t] EXCEPT !.pc = "finding"],
                                "findOne", tasks[t].opt, <<>>)
    /\ UNCHANGED <<heap, store>>

\* A then-callback that goes on deleting after a search found nothing
\* (a mutant).
DeleteManyFoundMutant(t) ==
    /\ Returning(t, "deleteMany", "base", "finding")
    /\ IF Awaited(t).status = "rejected"
         THEN tasks' = [tasks EXCEPT ![t] = Reject(@, Awaited(t).err)]
         ELSE IF heap[tasks[t].opt].limit = Num(tasks[t].count)
         THEN tasks' = [tasks EXCEPT ![t] = Resolve(@, Nil)]
         ELSE /\ Len(tasks) < MaxTasks
              /\ tasks' = Spawn(t, [tasks[t] EXCEPT !.count = @ + 1, !.pc = "deleting"],
                                "deleteOne", tasks[t].opt, <<>>)
    /\ UNCHANGED <<heap, store>>

\* Adapter.deleteMany (default), the then-callback of findOne: nothing found
\* or count === options.limit ends the loop, else count++ and this.deleteOne.
DeleteManyFound(t) ==
    /\ Returning(t, "deleteMany", "base", "finding")
    /\ IF Awaited(t).status = "rejected"
         THEN tasks' = [tasks EXCEPT ![t] = Reject(@, Awaited(t).err)]
         ELSE IF IsNil(Awaited(t).result)
         THEN tasks' = [tasks EXCEPT ![t] = Resolve(@, Nil)]
         ELSE IF heap[tasks[t].opt].limit = Num(tasks[t].count)
         THEN tasks' = [tasks EXCEPT ![t] = Resolve(@, Nil)]
         ELSE /\ Len(tasks) < MaxTasks
              /\ tasks' = Spawn(t, [tasks[t] EXCEPT !.count = @ + 1, !.pc = "deleting"],
                                "deleteOne", tasks[t].opt, <<>>)
    /\ UNCHANGED <<heap, store>>

\* _.pull / _.pullAll(tableIndex, ids) and source.removeItem of each id.
Pull(index, ids) == SelectSeq(index, LAMBDA id : id \notin ids)
RemoveItems(ids) == [n \in DOMAIN items |-> IF Uuid(n) \in ids THEN NoItem ELSE items[n]]

\* WebStorageAdapter.deleteOne: await this.findOne(table, queryFind, options).
WebStorageDeleteOneCall(t) ==
    /\ Running(t, "deleteOne", "native", "start")
    /\ Len(tasks) < MaxTasks
    /\ tasks' = Spawn(t, [tasks[t] EXCEPT !.pc = "finding"], "findOne", tasks[t].opt, <<>>)
    /\ UNCHANGED <<heap, store>>

\* WebStorageAdapter.deleteOne: the entity found leaves the index and the store.
WebStorageDeleteOneReturn(t) ==
    /\ Returning(t, "deleteOne", "native", "finding")
    /\ IF Awaited(t).status = "rejected"
         THEN /\ tasks' = [tasks EXCEPT ![t] = Reject(@, Awaited(t).err)]
              /\ UNCHANGED store
         ELSE IF IsNil(Awaited(t).result)
         THEN /\ tasks' = [tasks EXCEPT ![t] = Resolve(@, Nil)]
              /\ UNCHANGED store
         ELSE /\ EnsureCollectionExists
              /\ tableIndex' = Pull(tableIndex, {Awaited(t).result.id})
              /\ items' = RemoveItems({Awaited(t).result.id})
              /\ tasks' = [tasks EXCEPT ![t] = Resolve(@, Nil)]
    /\ UNCHANGED heap

\* WebStorageAdapter.deleteMany: await this.findMany(table, queryFind, options).
WebStorageDeleteManyCall(t) ==
    /\ Running(t, "deleteMany", "native", "start")
    /\ Len(tasks) < MaxTasks
    /\ tasks' = Spawn(t, [tasks[t] EXCEPT !.pc = "finding"], "findMany", tasks[t].opt, <<>>)
    /\ UNCHANGED <<heap, store>>

\* WebStorageAdapter.deleteMany: the entities found leave the index and the store.
WebStorageDeleteManyReturn(t) ==
    /\ Returning(t, "deleteMany", "native", "finding")
    /\ IF Awaited(t).status = "rejected"
         THEN /\ tasks' = [tasks EXCEPT ![t] = Reject(@, Awaited(t).err)]
              /\ UNCHANGED store
         ELSE LET entitiesToDelete == Awaited(t).result
                  ids == {entitiesToDelete[i].id : i \in DOMAIN entitiesToDelete}
              IN /\ EnsureCollectionExists
                 /\ tableIndex' = Pull(tableIndex, ids)
                 /\ items' = RemoveItems(ids)
                 /\ tasks' = [tasks EXCEPT ![t] = Resolve(@, Nil)]
    /\ UNCHANGED heap


-----------------------------------------------------------------------------
(* The insert pair *)

\* entity || {}
OrEmpty(e) == IF IsNil(e) THEN EmptyEntity ELSE e

\* _.compact(mapped)
Compact(list) == SelectSeq(list, LAMBDA v : ~IsNil(v))

\* Adapter.insertOne (default): this.insertMany(table, [entity]).
InsertOneDefaultCall(t) ==
    /\ Running(t, "insertOne", "base", "start")
    /\ Len(tasks) < MaxTasks
    /\ tasks' = Spawn(t, [tasks[t] EXCEPT !.pc = "await"], "insertMany", 0, tasks[t].arg)
    /\ UNCHANGED <<heap, store>>

\* An insertOne that returns the entity it was given (a mutant).
InsertOneDefaultReturnMutant(t) ==
    /\ Returning(t, "insertOne", "base", "await")
    /\ tasks' = [tasks EXCEPT ![t] =
            IF Awaited(t).status = "rejected"
              THEN Reject(@, Awaited(t).err)
              ELSE Resolve(@, @.arg[1])]
    /\ UNCHANGED <<heap, store>>

\* Adapter.insertOne (default): _.first of what insertMany returned.
InsertOneDefaultReturn(t) ==
    /\ Returning(t, "insertOne", "base", "await")
    /\ tasks' = [tasks EXCEPT ![t] =
            IF Awaited(t).status = "rejected"
              THEN Reject(@, Awaited(t).err)
              ELSE Resolve(@, First(Awaited(t).result))]
    /\ UNCHANGED <<heap, store>>

\* A mapSeries that keeps the empty results (a mutant).
InsertManyDefaultNextMutant(t) ==
    /\ \/ Running(t, "insertMany", "base", "start")
       \/ Returning(t, "insertMany", "base", "mapping")
    /\ IF tasks[t].status = "awaiting" /\ Awaited(t).status = "rejected"
         THEN tasks' = [tasks EXCEPT ![t] = Reject(@, Awaited(t).err)]
         ELSE LET mapped == IF tasks[t].status = "awaiting"
                              THEN Append(tasks[t].acc, Awaited(t).result)
                              ELSE tasks[t].acc
              IN IF Len(mapped) = Len(tasks[t].arg)
                   THEN tasks' = [tasks EXCEPT ![t] = Resolve(@, mapped)]
                   ELSE /\ Len(tasks) < MaxTasks
                        /\ tasks' = Spawn(t, [tasks[t] EXCEPT !.pc = "mapping", !.acc = mapped],
                                          "insertOne", 0,
                                          <<OrEmpty(tasks[t].arg[Len(mapped) + 1])>>)
    /\ UNCHANGED <<heap, store>>

\* Adapter.insertMany (default): Bluebird.mapSeries calls this.insertOne for
\* the next entity once the previous call resolved; _.compact of the results
\* when all are mapped.
InsertManyDefaultNext(t) ==
    /\ \/ Running(t, "insertMany", "base", "start")
       \/ Returning(t, "insertMany", "base", "mapping")
    /\ IF tasks[t].status = "awaiting" /\ Awaited(t).status = "rejected"
         THEN tasks' = [tasks EXCEPT ![t] = Reject(@, Awaited(t).err)]
         ELSE LET mapped == IF tasks[t].status = "awaiting"
                              THEN Append(tasks[t].acc, Awaited(t).result)
                              ELSE tasks[t].acc
              IN IF Len(mapped) = Len(tasks[t].arg)
                   THEN tasks' = [tasks EXCEPT ![t] = Resolve(@, Compact(mapped))]
                   ELSE /\ Len(tasks) < MaxTasks
                        /\ tasks' = Spawn(t, [tasks[t] EXCEPT !.pc = "mapping", !.acc = mapped],
                                          "insertOne", 0,
                                          <<OrEmpty(tasks[t].arg[Len(mapped) + 1])>>)
    /\ UNCHANGED <<heap, store>>

\* The entity as stored: a generated id is assigned to the copy.

\* setIdHash(entity) without the entries the entity had (a mutant).
SetIdHashMutant(e) ==
    [e EXCEPT !["idHash"] = HashOf([NoHash EXCEPT ![AdapterName] = e.id])]

\* setIdHash(entity): _.assign({}, entity.idHash, { [this.name]: entity.id }).
SetIdHash(e) ==
    LET idHash == IF TypeOf(e.idHash) = "object" THEN e.idHash[2] ELSE NoHash
    IN [e EXCEPT !["idHash"] = HashOf([idHash EXCEPT ![AdapterName] = e.id])]

\* The entity as insertOne / insertMany store it: a copy (or {}) with the n-th
\* generated id and its idHash.
Stored(e, n) == SetIdHash([OrEmpty(e) EXCEPT !["id"] = Uuid(n)])

\* WebStorageAdapter.insertOne: the entity gets an id, joins the index and is
\* stored.
WebStorageInsertOne(t) ==
    /\ Running(t, "insertOne", "native", "start")
    /\ LET e == Stored(tasks[t].arg[1], Len(items) + 1)
       IN /\ EnsureCollectionExists
          /\ tableIndex' = Append(tableIndex, e.id)
          /\ items' = Append(items, e)
          /\ tasks' = [tasks EXCEPT ![t] = Resolve(@, e)]
    /\ UNCHANGED heap

\* WebStorageAdapter.insertMany: every entity gets an id, joins the index and
\* is stored.
WebStorageInsertMany(t) ==
    /\ Running(t, "insertMany", "native", "start")
    /\ LET entities == [i \in DOMAIN tasks[t].arg |-> Stored(tasks[t].arg[i], Len(items) + i)]
       IN /\ EnsureCollectionExists
          /\ tableIndex' = tableIndex \o [i \in DOMAIN entities |-> entities[i].id]
          /\ items' = items \o entities
          /\ tasks' = [tasks EXCEPT ![t] = Resolve(@, entities)]
    /\ UNCHANGED heap

\* An insert primitive of another adapter that stores nothing and returns no
\* entity (insertOne: undefined, insertMany: an empty list).
NativeInsertNothing(t) ==
    /\ \/ Running(t, "insertOne", "native", "start")
       \/ Running(t, "insertMany", "native", "start")
    /\ tasks' = [tasks EXCEPT ![t] =
            Resolve(@, IF @.m = "insertOne" THEN Nil ELSE <<>>)]
    /\ UNCHANGED <<heap, store>>

\* The backing store fails a primitive that reads or writes it: the promise
\* of the call is rejected and the store keeps what it held.
StoreFailure(t) ==
    /\ tasks[t].impl = "native"
    /\ tasks[t].m \in {"insertOne", "insertMany", "findOne", "findMany"}
    /\ tasks[t].status = "running"
    /\ \E e \in Errors : tasks' = [tasks EXCEPT ![t] = Reject(@, e)]
    /\ UNCHANGED <<heap, store>>

-----------------------------------------------------------------------------
(* The update pair *)

\* Utils.applyUpdateEntity(update, entity): the properties of update are set
\* on the entity (Absent: a property update does not hold).
ApplyUpdateEntity(update, e) ==
    [f \in EntityFields |-> IF update[f] = Absent THEN e[f] ELSE update[f]]

\* source.setItem(getItemName(table, id), JSON.stringify(item)).
SetItem(id, item) ==
    [n \in 1..Max(Len(items), id[2]) |->
        IF n = id[2] THEN item ELSE IF n <= Len(items) THEN items[n] ELSE NoItem]

\* WebStorageAdapter.updateOne: _.defaults(options, { skip: 0 }), then
\* await this.findOne(table, queryFind, options).
WebStorageUpdateOneCall(t) ==
    /\ Running(t, "updateOne", "native", "start")
    /\ Len(tasks) < MaxTasks
    /\ heap' = [heap EXCEPT ![tasks[t].opt] =
                    Defaults(@, [DefaultOptions EXCEPT !.remapInput = Absent,
                                                       !.remapOutput = Absent])]
    /\ tasks' = Spawn(t, [tasks[t] EXCEPT !.pc = "finding"], "findOne", tasks[t].opt, <<>>)
    /\ UNCHANGED store

\* WebStorageAdapter.updateOne: the entity found is updated and stored under
\* the id it has then.
WebStorageUpdateOneReturn(t) ==
    /\ Returning(t, "updateOne", "native", "finding")
    /\ IF Awaited(t).status = "rejected"
         THEN /\ tasks' = [tasks EXCEPT ![t] = Reject(@, Awaited(t).err)]
              /\ UNCHANGED store
         ELSE IF IsNil(Awaited(t).result)
         THEN /\ tasks' = [tasks EXCEPT ![t] = Resolve(@, Nil)]
              /\ UNCHANGED store
         ELSE LET e == ApplyUpdateEntity(tasks[t].arg[1], Awaited(t).result)
              IN /\ items' = SetItem(e.id, e)
                 /\ tasks' = [tasks EXCEPT ![t] = Resolve(@, e)]
                 /\ UNCHANGED <<hasIndex, tableIndex>>
    /\ UNCHANGED heap

\* Adapter.updateOne (default): options = this.normalizeOptions(options),
\* options.limit = 1 on that copy, then this.updateMany.
UpdateOneDefaultCall(t) ==
    /\ Running(t, "updateOne", "base", "start")
    /\ Len(tasks) < MaxTasks
    /\ heap' = Append(heap, [NormalizeOptions(heap[tasks[t].opt]).result
                                EXCEPT !.limit = Num(1)])
    /\ tasks' = Spawn(t, [tasks[t] EXCEPT !.pc = "await", !.local = Len(heap) + 1],
                      "updateMany", Len(heap) + 1, tasks[t].arg)
    /\ UNCHANGED store

\* Adapter.updateOne (default): _.first of what updateMany returned.
UpdateOneDefaultReturn(t) ==
    /\ Returning(t, "updateOne", "base", "await")
    /\ tasks' = [tasks EXCEPT ![t] =
            IF Awaited(t).status = "rejected"
              THEN Reject(@, Awaited(t).err)
              ELSE Resolve(@, First(Awaited(t).result))]
    /\ UNCHANGED <<heap, store>>

\* An updateMany the adapter implements itself: the matches after the first
\* skip ones, at most limit of them, are updated where they are stored.
NativeUpdateMany(t) ==
    /\ Running(t, "updateMany", "native", "start")
    /\ LET found == NativeFindManyResult(queryFind, heap[tasks[t].opt])
           ids == {found[i].id : i \in DOMAIN found}
       IN /\ items' = [n \in DOMAIN items |->
                          IF Uuid(n) \in ids
                            THEN ApplyUpdateEntity(tasks[t].arg[1], items[n])
                            ELSE items[n]]
          /\ tasks' = [tasks EXCEPT ![t] =
                  Resolve(@, [i \in DOMAIN found |->
                                 ApplyUpdateEntity(tasks[t].arg[1], found[i])])]
    /\ UNCHANGED <<heap, hasIndex, tableIndex>>

-----------------------------------------------------------------------------
(* One CRUD call on one adapter *)

\* The canonical queries of the calls: every record, the records of one age,
\* the record of one id.
CrudQueries ==
    {EmptyQuery,
     ObjectQuery([NoFields EXCEPT !["age"] = MappingDesc(Singleton("$equal", Num(1)))]),
     ObjectQuery([NoFields EXCEPT !["id"] = MappingDesc(Singleton("$equal", Uuid(1)))])}

\* The options objects of the calls.
CrudOptions ==
    [skip : {Absent, Num(0), Num(1)},
     limit : {Absent} \cup {Num(n) : n \in 0..MaxLimit},
     remapInput : {Absent},
     remapOutput : {Absent}]
NoOptions == [skip |-> Absent, limit |-> Absent, remapInput |-> Absent, remapOutput |-> Absent]

\* The entity lists handed to insertMany: at most MaxInserts elements, each an
\* entity without id or undefined.
MaxInserts == 2
NewEntity == [EmptyEntity EXCEPT !["age"] = Num(1)]

\* An entity that comes from another data source and from an earlier web
\* storage record.
TrackedEntity ==
    [NewEntity EXCEPT !["idHash"] = HashOf([webStorage |-> Str("old"), other |-> Str("x9")])]
EntityKinds == {"undefined", "new", "tracked"}
EntityList(kinds) ==
    [i \in DOMAIN kinds |->
        CASE kinds[i] = "undefined" -> Nil
          [] kinds[i] = "new" -> NewEntity
          [] OTHER -> TrackedEntity]

Pair(method) ==
    CASE method \in {"insertOne", "insertMany"} -> {"insertOne", "insertMany"}
      [] method \in {"updateOne", "updateMany"} -> {"updateOne", "updateMany"}
      [] method \in {"findOne", "findMany"} -> {"findOne", "findMany"}
      [] method \in {"deleteOne", "deleteMany"} -> {"deleteOne", "deleteMany"}

\* The updates of updateOne: a new age, or an id no record of the table has.
NoUpdate == [f \in EntityFields |-> Absent]
Updates ==
    {[NoUpdate EXCEPT !["age"] = Num(2)],
     [NoUpdate EXCEPT !["id"] = Uuid(MaxRecords + 1)]}

\* The adapter classes a call of the method is made on: every choice of
\* natively implemented primitives in the pairs the call can reach (the
\* deletions and updates search through the find pair); the other pairs
\* implement their One primitive, and the update pair always has one native
\* primitive.
AdapterClasses(method) ==
    {c \in SUBSET Primitives :
        /\ method \notin {"insertOne", "insertMany"}
              => c \cap Pair("insertOne") = {"insertOne"}
        /\ method \notin {"deleteOne", "deleteMany"}
              => c \cap Pair("deleteOne") = {"deleteOne"}
        /\ method \in {"insertOne", "insertMany"}
              => c \cap Pair("findOne") = {"findOne"}
        /\ IF method = "updateOne"
              THEN Cardinality(c \cap Pair("updateOne")) = 1
              ELSE c \cap Pair("updateOne") = {"updateOne"}}

\* The table as n insertions left it, or a table whose key holds nothing yet
\* (never configured, nothing inserted).
InitStore ==
    \E n \in 0..MaxRecords : \E ages \in [1..n -> {Num(1), Num(2)}] :
        /\ hasIndex \in {TRUE, n > 0}
        /\ tableIndex = [i \in 1..n |-> Uuid(i)]
        /\ items = [i \in 1..n |-> Stored([EmptyEntity EXCEPT !["age"] = ages[i]], i)]

\* A caller calls one primitive of the adapter.
InitCrud ==
    /\ InitStore
    /\ \E method \in Primitives \ {"updateMany"} : \E class \in AdapterClasses(method) :
        /\ native = class
        /\ IF method \in {"insertOne", "insertMany"}
             THEN /\ queryFind = EmptyQuery
                  /\ heap = <<NoOptions>>
                  /\ \E n \in 0..MaxInserts : \E kinds \in [1..n -> EntityKinds] :
                        /\ method = "insertOne" => n = 1 /\ kinds[1] # "undefined"
                        /\ tasks = <<Frame(method, IF method \in class THEN "native" ELSE "base",
                                           0, 0, EntityList(kinds))>>
             ELSE /\ queryFind \in CrudQueries
                  /\ \E options \in CrudOptions : heap = <<options>>
                  /\ \E arg \in IF method = "updateOne"
                                   THEN {<<update>> : update \in Updates} ELSE {<<>>} :
                        tasks = <<Frame(method, IF method \in class THEN "native" ELSE "base",
                                        0, 1, arg)>>
    /\ given = [options |-> heap[1], hasIndex |-> hasIndex,
                tableIndex |-> tableIndex, items |-> items]

CrudStep(t) ==
    \/ FindOneDefaultCall(t)
    \/ FindOneDefaultReturn(t)
    \/ FindManyDefaultCall(t)
    \/ IterateLimitLoop(t)
    \/ IterateLimitFound(t)
    \/ WebStorageFindOne(t)
    \/ NativeFindMany(t)
    \/ DeleteOneDefaultCall(t)
    \/ DeleteOneDefaultReturn(t)
    \/ DeleteManyLoopFind(t)
    \/ DeleteManyFound(t)
    \/ WebStorageDeleteOneCall(t)
    \/ WebStorageDeleteOneReturn(t)
    \/ WebStorageDeleteManyCall(t)
    \/ WebStorageDeleteManyReturn(t)
    \/ InsertOneDefaultCall(t)
    \/ InsertOneDefaultReturn(t)
    \/ InsertManyDefaultNext(t)
    \/ WebStorageInsertOne(t)
    \/ WebStorageInsertMany(t)
    \/ NativeInsertNothing(t)
    \/ WebStorageUpdateOneCall(t)
    \/ WebStorageUpdateOneReturn(t)
    \/ UpdateOneDefaultCall(t)
    \/ UpdateOneDefaultReturn(t)
    \/ NativeUpdateMany(t)
    \/ StoreFailure(t)

CrudInit == IdleLifecycle /\ IdleQuery /\ IdleOptions /\ InitCrud /\ IdleRemap /\ IdleRegistry

CrudNext ==
    /\ \E t \in DOMAIN tasks : CrudStep(t)
    /\ UNCHANGED <<native, queryFind, given>>
    /\ UNCHANGED <<lifecycleVars, queryVars, optionVars, remapVars, registryVars>>

SpecCrud == CrudInit /\ [][CrudNext]_vars


-----------------------------------------------------------------------------
(* Claims about the CRUD defaults *)

Root == tasks[1]
RootIs(method, impl) == Root.m = method /\ Root.impl = impl

\* The records of the table that match the query when the operation is
\* called, in table-index order.
GivenMatches ==
    SelectSeq(given.items, LAMBDA item : item # NoItem /\ MatchEntity(queryFind, item))
GivenLimit == given.options.limit
GivenSkip == SkipOf(given.options)

IsBounded(limit) == IsNumber(limit)
ExpectedCount(limit, skip, n) ==
    IF IsBounded(limit) THEN Min(limit[2], Max(0, n - skip)) ELSE Max(0, n - skip)

\* C11: findMany built from findOne, called with limit L and skip S on a table
\* holding N records that match the query, returns min(L, max(0, N - S))
\* records (max(0, N - S) without limit): the matches that follow the first S,
\* each once, in the table's match order.
FindManyReturnsBoundedMatches ==
    (RootIs("findMany", "base") /\ "findOne" \in native /\ Root.status = "resolved")
        => /\ Len(Root.result) = ExpectedCount(GivenLimit, GivenSkip, Len(GivenMatches))
           /\ Root.result = Take(Drop(GivenMatches, GivenSkip), GivenLimit)


\* The adapter implements at least one primitive of the pair itself.
Implements(method) == native \cap Pair(method) # {}

\* The records the operation removed from the store, and their number.
Removed == {n \in DOMAIN given.items : given.items[n] # NoItem /\ items[n] = NoItem}
GivenMatchIds == {GivenMatches[i].id : i \in DOMAIN GivenMatches}

\* C12: deleteMany with limit L and skip 0 over N records matching the query
\* removes exactly min(L, N) of them and leaves every other record in the
\* store, on every adapter that implements at least one primitive of the find
\* pair and one of the delete pair.
DeleteManyRemovesUpToLimit ==
    (Root.m = "deleteMany" /\ Root.status = "resolved" /\ GivenSkip = 0
        /\ Implements("findOne") /\ Implements("deleteOne"))
        => /\ Cardinality(Removed) = ExpectedCount(GivenLimit, 0, Len(GivenMatches))
           /\ \A n \in Removed : Uuid(n) \in GivenMatchIds
           /\ \A n \in DOMAIN given.items \ Removed : items[n] = given.items[n]
           /\ tableIndex = Pull(given.tableIndex, {Uuid(n) : n \in Removed})


\* The calls a call made, identified by their position in the call log.
Children(p) == {c \in DOMAIN tasks : tasks[c].parent = p}
IsDefault(p, method) == tasks[p].m = method /\ tasks[p].impl = "base"
ReturnedNil(c) == tasks[c].status = "resolved" /\ IsNil(tasks[c].result)

\* C13: in a default findMany or deleteMany, a findOne call that returned no
\* result is the last call the operation makes: no findOne and no deleteOne
\* follows it, whatever the limit.
NoCallAfterNoMatch ==
    \A p \in DOMAIN tasks :
        (IsDefault(p, "findMany") \/ IsDefault(p, "deleteMany"))
            => \A c, d \in Children(p) :
                  (tasks[c].m = "findOne" /\ ReturnedNil(c)) => d <= c

\* A default deleteMany and a default findMany that ended on a search without
\* result, below their limit.
NoCallAfterNoMatchWitness ==
    /\ Root.status = "resolved"
    /\ IsDefault(1, "deleteMany") \/ IsDefault(1, "findMany")
    /\ GivenLimit = Num(2)
    /\ Cardinality(Children(1)) = 3
    /\ \E c \in Children(1) : tasks[c].m = "findOne" /\ ReturnedNil(c)
    /\ IsDefault(1, "deleteMany") => Cardinality(Removed) = 1
    /\ IsDefault(1, "findMany") => Len(Root.result) = 1


\* The deleteOne calls an operation made before it made the call c.
DeletionsBefore(p, c) == {d \in Children(p) : d < c /\ tasks[d].m = "deleteOne"}

\* C14: the default deleteMany called with limit L (on an adapter that
\* implements a primitive of the find pair and of the delete pair) makes no
\* findOne and no deleteOne call after its L-th deletion, and no call at all
\* when L is 0.
DeleteManyStopsAtLimit ==
    (IsDefault(1, "deleteMany") /\ IsBounded(GivenLimit)
        /\ Implements("findOne") /\ Implements("deleteOne"))
        => \A c \in Children(1) : Cardinality(DeletionsBefore(1, c)) < GivenLimit[2]

ResolvedChildren(p, method) ==
    {c \in Children(p) : tasks[c].m = method /\ tasks[c].status = "resolved"}

\* C15: when an insertOne, findOne or deleteOne call is rejected inside a
\* default insertMany or deleteMany, the operation makes no further call, does
\* not resolve and is rejected with the error of that call; what the earlier
\* iterations stored or removed stays stored or removed.
FailureAbortsAndKeepsMutations ==
    /\ \A p \in DOMAIN tasks :
          (IsDefault(p, "insertMany") \/ IsDefault(p, "deleteMany"))
              => \A c \in Children(p) :
                    tasks[c].status = "rejected"
                        => /\ \A d \in Children(p) : d <= c
                           /\ tasks[p].status # "resolved"
                           /\ tasks[p].status = "rejected" => tasks[p].err = tasks[c].err
    /\ IsDefault(1, "insertMany")
          => \A c \in ResolvedChildren(1, "insertOne") :
                ~IsNil(tasks[c].result) => GetItem(tasks[c].result.id) = tasks[c].result
    /\ (IsDefault(1, "deleteMany") /\ Implements("deleteOne"))
          => Cardinality(Removed) = Cardinality(ResolvedChildren(1, "deleteOne"))

\* A default deleteMany rejected in its second iteration: the record of the
\* first iteration is gone.
FailureAbortsWitness ==
    /\ IsDefault(1, "deleteMany")
    /\ Root.status = "rejected"
    /\ Cardinality(Removed) = 1
    /\ Len(tableIndex) = Len(given.tableIndex) - 1


\* The i-th call an operation made.
NthChild(p, i) == CHOOSE c \in Children(p) : Cardinality({d \in Children(p) : d < c}) = i - 1
ChildResults(p) == [i \in 1..Cardinality(Children(p)) |-> tasks[NthChild(p, i)].result]

\* C16: the default insertOne(table, e) calls insertMany(table, [e]) exactly
\* once and returns the first element of the list that call returned, or
\* undefined when the list is empty.
InsertOneIsFirstOfInsertMany ==
    \A p \in DOMAIN tasks :
        IsDefault(p, "insertOne")
            => /\ Cardinality(Children(p)) <= 1
               /\ \A c \in Children(p) : tasks[c].m = "insertMany" /\ tasks[c].arg = tasks[p].arg
               /\ tasks[p].status = "resolved"
                     => /\ Cardinality(Children(p)) = 1
                        /\ tasks[NthChild(p, 1)].status = "resolved"
                        /\ tasks[p].result = First(tasks[NthChild(p, 1)].result)

\* A default insertOne that returned the entity its insertMany stored.
InsertOneIsFirstWitness ==
    /\ IsDefault(1, "insertOne")
    /\ Root.status = "resolved"
    /\ ~IsNil(Root.result)
    /\ Root.result = Head(tasks[NthChild(1, 1)].result)
    /\ GetItem(Root.result.id) = Root.result

\* C17: the default insertMany calls insertOne once per input entity, in input
\* order, each call after the previous one resolved, and returns the results
\* of these calls in that order without the empty ones.
InsertManyMapsInOrder ==
    \A p \in DOMAIN tasks :
        IsDefault(p, "insertMany")
            => /\ Cardinality(Children(p)) <= Len(tasks[p].arg)
               /\ \A i \in 1..Cardinality(Children(p)) :
                     /\ tasks[NthChild(p, i)].m = "insertOne"
                     /\ tasks[NthChild(p, i)].arg = <<OrEmpty(tasks[p].arg[i])>>
               /\ \A c, d \in Children(p) : c < d => tasks[c].status = "resolved"
               /\ tasks[p].status = "resolved"
                     => /\ Cardinality(Children(p)) = Len(tasks[p].arg)
                        /\ tasks[p].result = Compact(ChildResults(p))

\* A default insertMany of two entities of which one insertOne returned
\* nothing and the other an entity.
InsertManyMapsWitness ==
    /\ IsDefault(1, "insertMany")
    /\ Root.status = "resolved"
    /\ Len(Root.arg) = 2
    /\ Len(Root.result) = 1
    /\ IsNil(tasks[NthChild(1, 1)].result)

\* C18: during a default deleteMany at most one of its findOne / deleteOne
\* calls is in flight: the calls alternate, findOne first, each one made after
\* the previous one resolved, and a search made after a deletion does not
\* find the records found before.
DeleteManyIsSequential ==
    \A p \in DOMAIN tasks :
        IsDefault(p, "deleteMany")
            => /\ Cardinality({c \in Children(p) : ~Settled(tasks[c])}) <= 1
               /\ \A c, d \in Children(p) : c < d => tasks[c].status = "resolved"
               /\ \A i \in 1..Cardinality(Children(p)) :
                     tasks[NthChild(p, i)].m = IF i % 2 = 1 THEN "findOne" ELSE "deleteOne"
               /\ Implements("deleteOne")
                     => \A c, d \in ResolvedChildren(p, "findOne") :
                           (c < d /\ ~IsNil(tasks[d].result))
                               => tasks[c].result # tasks[d].result

\* A default deleteMany in its third iteration.
DeleteManyIsSequentialWitness ==
    /\ IsDefault(1, "deleteMany")
    /\ Cardinality(Children(1)) = 5
    /\ Cardinality(Removed) = 2
    /\ ~Settled(tasks[NthChild(1, 5)])


\* C19 (as claimed): on an adapter that implements neither primitive of a
\* pair, a call of a default of that pair never completes with a result; on an
\* adapter that implements one, the calls a default makes to the other
\* primitive of the pair are served by the adapter's own primitive.
UnimplementedPairNeverCompletes ==
    /\ (Root.impl = "base" /\ ~Implements(Root.m)) => Root.status # "resolved"
    /\ \A p \in DOMAIN tasks :
          (tasks[p].impl = "base" /\ Implements(tasks[p].m))
              => \A c \in Children(p) :
                    tasks[c].m \in Pair(tasks[p].m) => tasks[c].impl = "native"

\* C19 (amended): on an adapter that implements neither primitive of a pair, a
\* default Many primitive of that pair that has called the One primitive never
\* completes with a result, and a default One primitive completes only when
\* the Many primitive it called completed without calling the One primitive
\* (deleteOne when the search of deleteMany finds nothing); on an adapter that
\* implements one primitive of the pair, the calls a default makes to the
\* other primitive are served by the adapter's own primitive, and a default
\* One primitive that completed has called it.
DelegationEndsOnlyAtNative ==
    /\ \A p \in DOMAIN tasks :
          (tasks[p].impl = "base" /\ ~Implements(tasks[p].m) /\ tasks[p].status = "resolved")
              => IF tasks[p].m \in {"insertMany", "findMany", "deleteMany"}
                   THEN \A c \in Children(p) : tasks[c].m \notin Pair(tasks[p].m)
                   ELSE \A c \in Children(p) :
                           /\ tasks[c].status = "resolved"
                           /\ \A d \in Children(c) : tasks[d].m \notin Pair(tasks[p].m)
    /\ \A p \in DOMAIN tasks :
          (tasks[p].impl = "base" /\ Implements(tasks[p].m))
              => /\ \A c \in Children(p) :
                       tasks[c].m \in Pair(tasks[p].m) => tasks[c].impl = "native"
                 /\ (tasks[p].m \in {"insertOne", "findOne", "deleteOne"}
                        /\ tasks[p].status = "resolved")
                       => \E c \in Children(p) :
                             /\ tasks[c].m \in Pair(tasks[p].m)
                             /\ tasks[c].impl = "native"
                             /\ tasks[c].status = "resolved"

\* A delegation of a pair without native primitive that has gone from Many to
\* One and back to Many twice, and is still going.
DelegationWitness ==
    /\ Root.impl = "base"
    /\ ~Implements(Root.m)
    /\ Root.m = "deleteMany"
    /\ Cardinality({p \in DOMAIN tasks : IsDefault(p, "deleteMany")}) = 3
    /\ Cardinality({p \in DOMAIN tasks : IsDefault(p, "deleteOne")}) = 2
    /\ \A p \in DOMAIN tasks : tasks[p].m \in Pair("deleteOne") => ~Settled(tasks[p])
    /\ Removed = {}


-----------------------------------------------------------------------------
(* Remapping: configureCollection, remapInput, remapOutput *)

\* Field names of entities and of the data source; an object lists its keys
\* in this order unless built otherwise.
FieldNames == {"a", "b", "x"}
NameOrder == <<"a", "b", "x">>

\* An object with string keys, as the sequence of its <<key, value>> pairs in
\* key order.
KeysIn(obj) == {obj[i][1] : i \in DOMAIN obj}
Get(obj, key) == (CHOOSE i \in DOMAIN obj : obj[i][1] = key)
ValueAt(obj, key) == obj[Get(obj, key)][2]

\* obj[key] = value: an existing key keeps its place.
Put(obj, key, value) ==
    IF key \in KeysIn(obj)
      THEN [obj EXCEPT ![Get(obj, key)] = <<key, value>>]
      ELSE Append(obj, <<key, value>>)

\* The object holding f[k] for the keys k of f, in NameOrder.
RECURSIVE ObjectOf(_, _)
ObjectOf(f, names) ==
    IF names = <<>> THEN <<>>
    ELSE IF Head(names) \in DOMAIN f
           THEN <<<<Head(names), f[Head(names)]>>>> \o ObjectOf(f, Tail(names))
           ELSE ObjectOf(f, Tail(names))

\* The mapping an object stands for, whatever the order of its keys.
MappingOf(obj) == [k \in KeysIn(obj) |-> ValueAt(obj, k)]

\* _.invert(remaps): values become keys; of two keys with the same value the
\* later one stays.
RECURSIVE Invert(_)
Invert(obj) ==
    IF obj = <<>> THEN <<>>
    ELSE LET last == obj[Len(obj)]
         IN Put(Invert(SubSeq(obj, 1, Len(obj) - 1)), last[2], last[1])

\* remapIO: every key the direction's table holds is rewritten to its
\* counterpart, the other keys are kept.
RECURSIVE RemapIO(_, _)
RemapIO(table, obj) ==
    IF obj = <<>> THEN <<>>
    ELSE LET last == obj[Len(obj)]
             key == IF last[1] \in KeysIn(table) THEN ValueAt(table, last[1]) ELSE last[1]
         IN Put(RemapIO(table, SubSeq(obj, 1, Len(obj) - 1)), key, last[2])

\* The remap tables and the records of the calls.
RemapTables == UNION {{ObjectOf(f, NameOrder) : f \in [D -> FieldNames]} : D \in SUBSET FieldNames}
Records == UNION {{ObjectOf(f, NameOrder) : f \in [D -> {Num(1), Num(2)}]} : D \in SUBSET FieldNames}

InitRemap ==
    /\ remaps = "none"
    /\ filters = "none"
    /\ configureArgs = "none"
    /\ record \in Records
    /\ remapped = "none"
    /\ restored = "none"
    /\ rPhase = "input"

\* The filter tables: a cast function for some fields ({} when none is given).
FilterTables == UNION {{ObjectOf(f, NameOrder) : f \in [D -> {Str("toDate")}]} : D \in SUBSET {"a", "b"}}

\* The body of Adapter.configureCollection(tableName, remaps, filters = {}).
SaveTables(table, filterTable) ==
    /\ remaps' = [normal |-> table, inverted |-> Invert(table)]
    /\ filters' = filterTable

\* configureCollection(tableName, remaps, filters) on an adapter that keeps
\* the base method.
ConfigureCollection ==
    /\ rPhase = "input"
    /\ \E table \in RemapTables : \E filterTable \in FilterTables :
          /\ SaveTables(table, filterTable)
          /\ configureArgs' = [class |-> "Adapter", remaps |-> table, filters |-> filterTable]
    /\ rPhase' = "configured"
    /\ UNCHANGED <<record, remapped, restored>>
    /\ UNCHANGED crudVars

\* WebStorageAdapter.configureCollection(tableName, remaps, filters):
\* super.configureCollection(tableName, remaps), then ensureCollectionExists.
WebStorageConfigureCollection ==
    /\ rPhase = "input"
    /\ \E table \in RemapTables : \E filterTable \in FilterTables :
          /\ SaveTables(table, <<>>)
          /\ configureArgs' = [class |-> "WebStorageAdapter", remaps |-> table,
                               filters |-> filterTable]
    /\ EnsureCollectionExists
    /\ rPhase' = "configured"
    /\ UNCHANGED <<record, remapped, restored>>
    /\ UNCHANGED <<native, queryFind, tableIndex, items, heap, tasks, given>>

\* remapInput(tableName, record)
RemapInputCall ==
    /\ rPhase = "configured"
    /\ remapped' = RemapIO(remaps.normal, record)
    /\ rPhase' = "remapped"
    /\ UNCHANGED <<remaps, filters, configureArgs, record, restored>>
    /\ UNCHANGED crudVars

\* remapOutput(tableName, remapped)
RemapOutputCall ==
    /\ rPhase = "remapped"
    /\ restored' = RemapIO(remaps.inverted, remapped)
    /\ rPhase' = "restored"
    /\ UNCHANGED <<remaps, filters, configureArgs, record, remapped>>
    /\ UNCHANGED crudVars

RemapInit == IdleLifecycle /\ IdleQuery /\ IdleOptions /\ IdleCrud /\ InitRemap /\ IdleRegistry

RemapNext ==
    /\ \/ ConfigureCollection
       \/ WebStorageConfigureCollection
       \/ RemapInputCall
       \/ RemapOutputCall
    /\ UNCHANGED <<lifecycleVars, queryVars, optionVars, registryVars>>

SpecRemap == RemapInit /\ [][RemapNext]_vars

\* C20: for a table configured with remap map M and a record e whose keys are
\* all keys of M, remapOutput(table, remapInput(table, e)) equals e.
RemapRoundTrip ==
    (rPhase = "restored" /\ KeysIn(record) \subseteq KeysIn(remaps.normal))
        => MappingOf(restored) = MappingOf(record)

\* inverted holds, for every value of the table, the last key that maps to it.
IsInversion(inverted, table) ==
    /\ KeysIn(inverted) = {table[i][2] : i \in DOMAIN table}
    /\ \A i \in DOMAIN table :
          (\A j \in DOMAIN table : j > i => table[j][2] # table[i][2])
              => ValueAt(inverted, table[i][2]) = table[i][1]

\* C21: after configureCollection(table, remaps, filters), on the base adapter
\* and on the web storage adapter, the adapter holds for the table the remap
\* map, its inversion and the given filters.
ConfigureCollectionKeepsTables ==
    rPhase \in {"configured", "remapped", "restored"} =>
        /\ remaps.normal = configureArgs.remaps
        /\ IsInversion(remaps.inverted, configureArgs.remaps)
        /\ MappingOf(filters) = MappingOf(configureArgs.filters)


-----------------------------------------------------------------------------
(* normalizeQuery and options.remapInput *)

\* The canonical form normalizeQuery produces: an object whose fields all hold
\* operator mappings, no alias among the operator names, and every arithmetic
\* comparison with a number or a date.
IsNormalForm(q) ==
    /\ q.kind = "object"
    /\ \A f \in Fields :
          \/ q.fields[f].kind = "absent"
          \/ /\ q.fields[f].kind = "mapping"
             /\ DOMAIN q.fields[f].ops \cap Aliases = {}
             /\ ~IllTyped(q.fields[f])

\* C30: whatever the options (remapInput false included), a query returned by
\* normalizeQuery is in canonical form: every field holds an operator mapping
\* with canonical operator names, conflicts and arithmetic operand types
\* checked.
NormalizeQueryAlwaysCanonical ==
    (qPhase = "normalized" /\ ~normalized.threw) => IsNormalForm(normalized.value)


-----------------------------------------------------------------------------
(* The Diaspora namespace: adapter, data-source and model registries *)

MaxCreated == 2       \* registrations and constructions made in one behaviour

\* An array holding the one string s (no string: the empty array).
ArrayOf(s) == <<"array", s>>

\* The values callers pass as names, and the labels they pass.
NameValues == {Str(""), Str("a"), Num(1), Undefined, ArrayOf("a")}
LabelValues == {Str("webStorage"), Str("a")}

\* The property key a value is used as (its string conversion).
ToKey(v) ==
    CASE TypeOf(v) = "string" -> v[2]
      [] TypeOf(v) = "number" -> IF v[2] = 1 THEN "1" ELSE "0"
      [] TypeOf(v) = "array" -> v[2]
      [] OTHER -> "undefined"

Keys == {ToKey(v) : v \in NameValues \cup LabelValues} \cup {"webApi"}

\* value.length > 0 for a value that is not undefined: a number has no length.
HasPositiveLength(v) == TypeOf(v) \in {"string", "array"} /\ v[2] # ""

\* sourceName || adapterLabel
Truthy(v) ==
    CASE TypeOf(v) = "string" -> v[2] # ""
      [] TypeOf(v) = "number" -> v[2] # 0
      [] TypeOf(v) = "undefined" -> FALSE
      [] OTHER -> TRUE

\* What a registry holds under a key: nothing, an adapter constructor, a data
\* source (its adapter's class and name) or a model; serial tells the objects
\* constructed apart.
NoEntry == [ctor |-> "none", name |-> <<"none", 0>>, serial |-> 0]
AdapterCtr(c) == [ctor |-> c, name |-> <<"none", 0>>, serial |-> 0]
HasOwnProperty(registry, key) == registry[key] # NoEntry

\* Diaspora.requireName: the error it throws, if any. The test is
\* !_.isString(value) && value.length > 0, and undefined has no properties.
RequireName(value) ==
    IF IsString(value) THEN "none"
    ELSE IF IsUndefined(value) THEN "TypeError"
    ELSE IF HasPositiveLength(value) THEN "Error"
    ELSE "none"

\* new adapterCtr(sourceName || adapterLabel) wrapped in a DataAccessLayer. The
\* web storage adapter names itself 'webStorage' whatever it is given.
NewDataSource(adapterLabel, sourceName) ==
    LET adapterCtr == adapters[ToKey(adapterLabel)].ctor
    IN [ctor |-> adapterCtr,
        name |-> IF adapterCtr = "WebStorageAdapter" THEN Str("webStorage")
                 ELSE IF Truthy(sourceName) THEN sourceName ELSE adapterLabel,
        serial |-> created + 1]

\* The model descriptions callers pass: not an object, an object the model
\* layer refuses, an object it accepts.
ModelDescriptions == {"notObject", "malformed", "wellFormed"}

\* new Model(name, modelDesc): the error it throws, if any.
ModelConstructor(name, modelDesc) == IF modelDesc = "malformed" THEN "Error" ELSE "none"

Registries == [adapters |-> adapters, dataSources |-> dataSources, models |-> models]

Call(op, name, arg, err) ==
    [op |-> op, name |-> name, arg |-> arg, threw |-> err # "none", err |-> err,
     before |-> Registries]

\* The registries once the module is loaded: inMemory and webApi registered,
\* webStorage in a browser only.
InitRegistry ==
    /\ \E browser \in BOOLEAN :
          adapters = [k \in Keys |->
              CASE k = "inMemory" -> AdapterCtr("InMemoryAdapter")
                [] k = "webApi" -> AdapterCtr("WebApiAdapter")
                [] k = "webStorage" /\ browser -> AdapterCtr("WebStorageAdapter")
                [] OTHER -> NoEntry]
    /\ dataSources = [k \in Keys |-> NoEntry]
    /\ models = [k \in Keys |-> NoEntry]
    /\ created = 0
    /\ lastCall = [op |-> "none", name |-> Undefined, arg |-> "none", threw |-> FALSE,
               err |-> "none", before |-> Registries]

\* Diaspora.registerAdapter(label, adapter), without its test (a mutant).
RegisterAdapterMutant(label, adapter) ==
    /\ created < MaxCreated
    /\ created' = created + 1
    /\ adapters' = [adapters EXCEPT ![ToKey(label)] = AdapterCtr(adapter)]
    /\ lastCall' = Call("registerAdapter", label, adapter, "none")
    /\ UNCHANGED <<dataSources, models>>

\* Diaspora.registerAdapter(label, adapter).
RegisterAdapter(label, adapter) ==
    IF HasOwnProperty(adapters, ToKey(label))
      THEN /\ lastCall' = Call("registerAdapter", label, adapter, "Error")
           /\ UNCHANGED <<adapters, dataSources, models, created>>
      ELSE /\ created < MaxCreated
           /\ created' = created + 1
           /\ adapters' = [adapters EXCEPT ![ToKey(label)] = AdapterCtr(adapter)]
           /\ lastCall' = Call("registerAdapter", label, adapter, "none")
           /\ UNCHANGED <<dataSources, models>>

\* Diaspora.createNamedDataSource(sourceName, adapterLabel): requireName, then
\* createDataSource (an unregistered label is looked up as a module, which is
\* not installed), then the test of the name and the registration.
CreateNamedDataSource(sourceName, adapterLabel) ==
    IF RequireName(sourceName) # "none"
      THEN /\ lastCall' = Call("createNamedDataSource", sourceName, adapterLabel[2],
                           RequireName(sourceName))
           /\ UNCHANGED <<adapters, dataSources, models, created>>
    ELSE IF ~HasOwnProperty(adapters, ToKey(adapterLabel))
      THEN /\ lastCall' = Call("createNamedDataSource", sourceName, adapterLabel[2], "Error")
           /\ UNCHANGED <<adapters, dataSources, models, created>>
    ELSE /\ created < MaxCreated
         /\ created' = created + 1
         /\ IF HasOwnProperty(dataSources, ToKey(sourceName))
              THEN /\ lastCall' = Call("createNamedDataSource", sourceName, adapterLabel[2], "Error")
                   /\ UNCHANGED <<adapters, dataSources, models>>
              ELSE /\ dataSources' = [dataSources EXCEPT ![ToKey(sourceName)] =
                                          NewDataSource(adapterLabel, sourceName)]
                   /\ lastCall' = Call("createNamedDataSource", sourceName, adapterLabel[2], "none")
                   /\ UNCHANGED <<adapters, models>>

\* Diaspora.declareModel(name, modelDesc): requireName for a non-empty string,
\* the test of the description, the model and its registration.
DeclareModel(name, modelDesc) ==
    LET nameError == IF IsString(name) /\ HasPositiveLength(name)
                       THEN RequireName(name) ELSE "none"
    IN IF nameError # "none"
         THEN /\ lastCall' = Call("declareModel", name, modelDesc, nameError)
              /\ UNCHANGED <<adapters, dataSources, models, created>>
       ELSE IF modelDesc = "notObject"
         THEN /\ lastCall' = Call("declareModel", name, modelDesc, "Error")
              /\ UNCHANGED <<adapters, dataSources, models, created>>
       ELSE IF ModelConstructor(name, modelDesc) # "none"
         THEN /\ lastCall' = Call("declareModel", name, modelDesc, ModelConstructor(name, modelDesc))
              /\ UNCHANGED <<adapters, dataSources, models, created>>
       ELSE /\ created < MaxCreated
            /\ created' = created + 1
            /\ models' = [models EXCEPT ![ToKey(name)] =
                              [ctor |-> "Model", name |-> name, serial |-> created + 1]]
            /\ lastCall' = Call("declareModel", name, modelDesc, "none")
            /\ UNCHANGED <<adapters, dataSources>>

RegistryInit == IdleLifecycle /\ IdleQuery /\ IdleOptions /\ IdleCrud /\ IdleRemap /\ InitRegistry

RegistryNext ==
    /\ \/ \E label \in NameValues \cup LabelValues :
            \E adapter \in {"WebStorageAdapter", "CustomAdapter"} : RegisterAdapter(label, adapter)
       \/ \E sourceName \in NameValues : \E adapterLabel \in LabelValues :
            CreateNamedDataSource(sourceName, adapterLabel)
       \/ \E name \in NameValues : \E modelDesc \in ModelDescriptions :
            DeclareModel(name, modelDesc)
    /\ UNCHANGED <<lifecycleVars, queryVars, optionVars, crudVars, remapVars>>

SpecRegistry == RegistryInit /\ [][RegistryNext]_vars


-----------------------------------------------------------------------------
(* Claims about the registries (checked under SpecRegistry) *)

\* C22: registering under a name already in use is rejected and changes
\* nothing: a registerAdapter whose label is registered throws, a
\* createNamedDataSource whose source name is registered throws, neither
\* changes a registry, and through every call a registered label keeps its
\* first adapter and a registered name its first data source.
DuplicateRegistrationRejected ==
    [][/\ \A k \in Keys :
            /\ HasOwnProperty(adapters, k) => adapters'[k] = adapters[k]
            /\ HasOwnProperty(dataSources, k) => dataSources'[k] = dataSources[k]
       /\ (/\ lastCall'.op = "registerAdapter"
           /\ HasOwnProperty(adapters, ToKey(lastCall'.name)))
            => lastCall'.threw /\ UNCHANGED <<adapters, dataSources, models>>
       /\ (/\ lastCall'.op = "createNamedDataSource"
           /\ HasOwnProperty(dataSources, ToKey(lastCall'.name)))
            => lastCall'.threw /\ UNCHANGED <<adapters, dataSources, models>>]_vars

\* C22 witness: a createNamedDataSource under a name in use, with a registered
\* adapter label, threw after it built a second data source; the name holds
\* the first one.
DuplicateRegistrationWitness ==
    /\ lastCall.op = "createNamedDataSource"
    /\ lastCall.threw
    /\ HasOwnProperty(lastCall.before.adapters, lastCall.arg)
    /\ HasOwnProperty(lastCall.before.dataSources, ToKey(lastCall.name))
    /\ RequireName(lastCall.name) = "none"
    /\ dataSources[ToKey(lastCall.name)].serial < created

\* A name that is an empty string or is not a string.
InvalidName(v) == ~IsString(v) \/ v = Str("")

\* C23: createNamedDataSource and declareModel throw when the name is an empty
\* string or is not a string, and then add no entry to the data-source
\* registry or the model registry.
InvalidNameRejected ==
    (lastCall.op \in {"createNamedDataSource", "declareModel"} /\ InvalidName(lastCall.name))
        => /\ lastCall.threw
           /\ dataSources = lastCall.before.dataSources
           /\ models = lastCall.before.models


-----------------------------------------------------------------------------
(* Claims about the web storage adapter (checked under SpecCrud) *)

\* The entities a resolved insertOne / insertMany call returned, each with the
\* entity it was given.
ReturnedPairs(t) ==
    IF tasks[t].m = "insertOne"
      THEN IF IsNil(tasks[t].result) THEN {}
           ELSE {<<OrEmpty(tasks[t].arg[1]), tasks[t].result>>}
      ELSE {<<OrEmpty(tasks[t].arg[i]), tasks[t].result[i]>> : i \in DOMAIN tasks[t].result}

\* The idHash entries an entity holds.
HashEntries(e) == IF TypeOf(e.idHash) = "object" THEN e.idHash[2] ELSE NoHash

\* C24: every entity returned by insertOne or insertMany of the web storage
\* adapter carries an idHash whose entry for the adapter's name is the
\* entity's id, and the idHash keeps every entry of other data sources that
\* the given entity had.
InsertedEntitiesCarryIdHash ==
    \A t \in DOMAIN tasks :
        (/\ tasks[t].m \in {"insertOne", "insertMany"}
         /\ tasks[t].impl = "native"
         /\ tasks[t].status = "resolved")
            => \A pair \in ReturnedPairs(t) :
                  /\ TypeOf(pair[2].idHash) = "object"
                  /\ TypeOf(pair[2].id) = "uuid"
                  /\ HashEntries(pair[2])[AdapterName] = pair[2].id
                  /\ \A s \in DataSourceNames \ {AdapterName} :
                        HashEntries(pair[2])[s] = HashEntries(pair[1])[s]

\* C24 witness: insertMany returned two entities, one given without idHash and
\* one given with the id of another data source, which it kept.
InsertedEntitiesWitness ==
    /\ RootIs("insertMany", "native")
    /\ Root.status = "resolved"
    /\ Len(Root.result) = 2
    /\ \E i, j \in 1..2 :
          /\ HashEntries(OrEmpty(Root.arg[i])) = NoHash
          /\ HashEntries(Root.result[j])["other"] = Str("x9")
          /\ HashEntries(Root.arg[j])[AdapterName] = Str("old")
          /\ HashEntries(Root.result[j])[AdapterName] = Root.result[j].id


\* C25: for every canonical query and every skip S, findOne of the web storage
\* adapter returns the (S+1)-th record matching the query in table-index
\* order, and undefined when fewer than S+1 records match; queries that test
\* only id equality are included.
FindOneHonorsSkip ==
    (RootIs("findOne", "native") /\ Root.status = "resolved")
        => Root.result = IF Len(GivenMatches) > GivenSkip
                           THEN GivenMatches[GivenSkip + 1]
                           ELSE Nil


\* The calls of one behaviour under the scheduling of the event loop: a
\* callback that can run does run. An iteration that returns distinct records
\* makes at most MaxRecords + 1 searches, fewer calls than MaxTasks, so a call
\* left unsettled at that bound is one whose searches return a record again.
FairSpecCrud == SpecCrud /\ WF_vars(CrudNext)

\* The call is findMany or deleteMany of the web storage adapter: findOne and
\* deleteMany are its own, findMany is the default.
OnWebStorage ==
    /\ "findOne" \in native /\ "findMany" \notin native
    /\ \/ RootIs("findMany", "base")
       \/ RootIs("deleteMany", "native")

CallerProperties == {"limit", "remapInput", "remapOutput"}

\* C27: the default findOne, updateOne and deleteOne leave the options object
\* passed by the caller as it was, and through a default deleteMany the limit
\* its deletion count is compared with stays the caller's limit, also when
\* findOne or deleteOne is the base default.
DefaultsKeepCallerOptions ==
    (\E method \in {"findOne", "updateOne", "deleteOne", "deleteMany"} : IsDefault(1, method))
        => \A k \in CallerProperties : heap[1][k] = given.options[k]

\* The ids of the table index.
Indexed == {tableIndex[i] : i \in DOMAIN tableIndex}

\* The call was made on the web storage adapter: the primitives the call
\* reaches are the adapter's own, findMany is the default.
WebStorageCall(methods) ==
    /\ Root.m \in methods
    /\ Root.impl = "native"
    /\ "findOne" \in native /\ "findMany" \notin native

\* C28: after a completed insertOne, insertMany, updateOne, deleteOne or
\* deleteMany of the web storage adapter, the table index holds no id twice,
\* every indexed id has a stored item, and every stored item's id is indexed.
IndexMatchesItems ==
    (/\ WebStorageCall({"insertOne", "insertMany", "updateOne", "deleteOne", "deleteMany"})
     /\ Settled(Root))
        => /\ \A i, j \in DOMAIN tableIndex : tableIndex[i] = tableIndex[j] => i = j
           /\ \A id \in Indexed : GetItem(id) # NoItem
           /\ \A n \in DOMAIN items :
                 items[n] # NoItem => Uuid(n) \in Indexed /\ items[n].id \in Indexed

\* The search of a deleteOne or updateOne found no record.
FoundNothing ==
    /\ Root.child # 0
    /\ ReturnedNil(Root.child)

\* C29: findOne and findMany of the web storage adapter, and its deleteOne
\* and updateOne when no record matches, leave the backing storage as it was,
\* whether or not the table was configured before.
ReadsLeaveStorageUnchanged ==
    (\/ /\ Root.m \in {"findOne", "findMany"}
        /\ "findOne" \in native /\ "findMany" \notin native
     \/ WebStorageCall({"deleteOne", "updateOne"}) /\ FoundNothing)
        => /\ hasIndex = given.hasIndex
           /\ tableIndex = given.tableIndex
           /\ items = given.items

=============================================================================
